---- MODULE Spec2Model ----
(***************************************************************************)
(* A model of the Windows driver updater: the installation pipeline of     *)
(* DriverInstaller (driver_installer.py), the batch loops that drive it    *)
(* (DriverInstaller.install_updates and the GUI worker                     *)
(* DriverUpdaterGUI.install_updates_thread), the update resolver           *)
(* (update_checker.py) and the busy flags of the GUI (main.py).            *)
(*                                                                         *)
(* External processes (subprocess.run), the network and the file system    *)
(* are the environment: every call to them is a step whose outcome is      *)
(* drawn from Outcomes.                                                    *)
(***************************************************************************)
EXTENDS Integers, Sequences, FiniteSets, TLC

(***************************************************************************)
(* Bounds of the model.                                                    *)
(***************************************************************************)
\* longest list of candidates handed to a batch
MaxUpdates == 3
\* most driver files found inside an extracted archive
MaxInner == 2

(***************************************************************************)
(* Program constants.                                                      *)
(***************************************************************************)
\* "success, reboot required" exit code of an installer
REBOOT_REQUIRED == 3010
\* ResultCode orcSucceeded of the Windows Update installer
ORC_SUCCEEDED == 2
\* verify_download: tolerance of the size check, in percent
SIZE_TOLERANCE_PCT == 10

\* the silent installation parameters, in the order of the source
silent_params ==
  <<"/S", "/SILENT", "/VERYSILENT", "/q", "/s", "-s", "--silent", "/quiet">>

(***************************************************************************)
(* The environment's answers.  subprocess.run returns an exit code, or     *)
(* raises TimeoutExpired, or raises another exception (OSError...).        *)
(***************************************************************************)
ExitCodes == {0, 1, ORC_SUCCEEDED, REBOOT_REQUIRED}

Outcomes ==
  [t : {"exit"}, rc : ExitCodes] \cup {[t |-> "timeout", rc |-> -1], [t |-> "raise", rc |-> -1]}

NoOut == [t |-> "none", rc |-> -1]

\* file extensions a staged payload can have (os.path.splitext(...)[1].lower())
Exts == {".exe", ".msi", ".inf", ".cat", ".sys", ".zip", ".txt"}

\* download_url of a candidate: "" stands for a missing, None or empty URL
Urls == {"", "windows_update", "generic_update", "http"}

\* download_size of a candidate, after _parse_size_string: 0 stands for a
\* missing or unparsable size (expected_bytes None), else a number of bytes
ExpectedSizes == {0, 10}

\* sizes the downloaded file can turn out to have; -1: the file does not exist
FileSizes == {-1, 8, 9, 10, 11, 12}

Candidates == [download_url : Urls, download_size : ExpectedSizes]

\* the candidates that differ in a way the pipeline can see: the size only
\* matters for a candidate that is downloaded
CandidateKinds ==
  {c \in Candidates : c.download_url # "http" => c.download_size = 0}

RECURSIVE SeqsUpTo(_, _)
SeqsUpTo(S, n) ==
  IF n = 0 THEN {<<>>}
  ELSE LET shorter == SeqsUpTo(S, n - 1)
       IN shorter \cup {Append(s, x) : s \in {t \in shorter : Len(t) = n - 1}, x \in S}

VARIABLES
  entry,          \* the method the run entered by
  updates,        \* the list of candidates of the batch
  idx,            \* number of candidates the loop has finished
  success_count,  \* success_count of the batch loop
  outcomes,       \* per finished candidate: its position and its result
  restore_calls,  \* number of create_restore_point invocations of the batch
  restore_point_created, \* what create_restore_point returned to the batch
  pc,             \* where the current run stands
  calls,          \* external invocations made for the current candidate
  lastOut,        \* outcome of the latest external installer invocation
  backup_out,     \* outcome of the backup export of the current candidate
  fetched,        \* what UpdateChecker.download_driver returned
  verified,       \* what UpdateChecker.verify_download returned
  driver_file,    \* "none" or "staged": what the download step returned
  ext,            \* extension of the staged payload
  param_i,        \* index in silent_params of the next flag to try
  inner_left,     \* driver files of an archive not yet installed
  extracted,      \* the files the walk over an extracted archive yields
  installed,      \* positions in `extracted` handed to the .inf strategy
  flag_timeouts,  \* every silent-flag attempt of this item so far timed out
  result,         \* what the latest item or dispatcher call returned
  \* UpdateChecker.check_for_updates
  drivers_data,      \* the driver records handed to check_for_updates
  legacy_packaging,  \* the installed `packaging` still has LegacyVersion
  has_callback,      \* a progress_callback was passed
  rpc,               \* where check_for_updates stands
  r_i,               \* number of records the loop has finished
  updates_available, \* the candidates found so far
  progress_calls,    \* the arguments of each call of the progress callback
  consulted,         \* per _check_driver_update call: the record and the strategies run
  \* DriverUpdaterGUI
  scanning,          \* self.scanning
  checking_updates,  \* self.checking_updates
  installing,        \* self.installing
  scan_workers,      \* scan_drivers_thread threads in flight
  check_workers,     \* check_updates_thread threads in flight
  install_workers,   \* install_updates_thread threads in flight
  after_queue,       \* callbacks scheduled with root.after(0, ...), in order
  gui_drivers,       \* len(self.drivers_data)
  gui_updates,       \* len(self.updates_available)
  rows,              \* rows of updates_tree
  selected,          \* rows of updates_tree that are ticked
  last_start,        \* the latest start request and what became of it
  install_threads,   \* per install_updates_thread in flight: the items it has
                     \* left and the installer processes it is waiting for
  check_stale,       \* a scan began or a batch completed since the update
                     \* check in flight read self.drivers_data
  updates_stale,     \* self.updates_available holds candidates resolved
                     \* before the latest scan began or batch completed
  scan_btn,          \* scan_btn is enabled
  check_updates_btn, \* check_updates_btn is enabled
  install_btn,       \* install_btn is enabled
  is_admin,          \* what system_utils.is_admin() returns
  by_buttons,        \* every start request so far was a click on its
                     \* button while the button was enabled
  scan_found,        \* a scan_drivers_thread has stored at least one record
  check_found,       \* on_update_check_complete has run with at least one
                     \* candidate in self.updates_available
  \* a single call of one of UpdateChecker's functions
  fcall,             \* the function called and its arguments
  fret,              \* whether the call has returned, and what
  \* DriverScanner.scan_all_drivers
  wmi_connection,    \* self.wmi_connection is not None
  spc,               \* where scan_all_drivers stands
  pnp_drivers,       \* what _scan_pnp_drivers returned
  system_drivers,    \* the list _scan_system_drivers builds and returns
  scan_errors,       \* the queries that raised, in order
  scan_result,       \* what scan_all_drivers returned
  \* DriverInstaller's staging directory
  session,           \* "none", "live" or "ended": the installer object
  mkdtemp_calls,     \* number of tempfile.mkdtemp calls
  disk,              \* the paths that exist
  staged,            \* the downloads and backups attempted, in order
  cleanup_calls,     \* number of cleanup() calls that have returned
  rollback           \* the latest rollback_driver call

instVars ==
  <<entry, updates, idx, success_count, outcomes, restore_calls,
    restore_point_created, pc, calls, lastOut, backup_out, fetched, verified,
    driver_file, ext, param_i, inner_left, extracted, installed,
    flag_timeouts, result>>

zipVars == <<inner_left, extracted, installed>>

resVars ==
  <<drivers_data, legacy_packaging, has_callback, rpc, r_i, updates_available,
    progress_calls, consulted>>

guiVars ==
  <<scanning, checking_updates, installing, scan_workers, check_workers,
    install_workers, after_queue, gui_drivers, gui_updates, rows, selected,
    last_start, install_threads, check_stale, updates_stale, scan_btn,
    check_updates_btn, install_btn, is_admin, by_buttons, scan_found,
    check_found>>

\* what has completed so far
histVars == <<scan_found, check_found>>

\* the buttons, the privilege they depend on, and how requests were made
btnVars == <<scan_btn, check_updates_btn, install_btn, is_admin, by_buttons>>

callVars == <<fcall, fret>>

scanVars ==
  <<wmi_connection, spc, pnp_drivers, system_drivers, scan_errors, scan_result>>

sessVars == <<session, mkdtemp_calls, disk, staged, cleanup_calls, rollback>>

vars == <<instVars, resVars, guiVars, callVars, scanVars, sessVars>>

otherThanInstall == <<resVars, guiVars, callVars, scanVars, sessVars>>
otherThanResolve == <<instVars, guiVars, callVars, scanVars, sessVars>>
otherThanGui == <<instVars, resVars, callVars, scanVars, sessVars>>
otherThanCall == <<instVars, resVars, guiVars, scanVars, sessVars>>
otherThanScan == <<instVars, resVars, guiVars, callVars, sessVars>>
otherThanSession == <<instVars, resVars, guiVars, callVars, scanVars>>

Pending == [st |-> "pending"]
Returned(v) == [st |-> "returned", v |-> v]

Call(cmd, arg) == [cmd |-> cmd, arg |-> arg]

HasCall(cmd) == \E k \in 1..Len(calls) : calls[k].cmd = cmd

InstallerCmds == {"exe", "msiexec", "pnputil_add"}

\* number of installer processes started for the current item
RECURSIVE CountInstaller(_)
CountInstaller(s) ==
  IF s = <<>> THEN 0
  ELSE (IF Head(s).cmd \in InstallerCmds THEN 1 ELSE 0) + CountInstaller(Tail(s))

BatchEntries == {"install_updates", "install_updates_thread"}
DispatchEntries == {"_install_driver_file", "_install_driver_file_interactive"}

(***************************************************************************)
(* Return of the per-item call.  In a batch the loop counts it and moves   *)
(* on to the next candidate; a dispatcher called on its own just returns.  *)
(***************************************************************************)
LoopAfter_break(ok) ==
  IF ok /\ idx + 1 < Len(updates) THEN "next" ELSE "done"

\* install_updates / install_updates_thread: the for loop goes on whatever
\* the item returned
LoopAfter(ok) ==
  IF idx + 1 < Len(updates) THEN "next" ELSE "done"

\* if self._install_single_update(update): success_count += 1
Count(ok) == IF ok THEN success_count + 1 ELSE success_count

Return(ok) ==
  /\ result' = (IF ok THEN "True" ELSE "False")
  /\ IF entry \in DispatchEntries
     THEN /\ pc' = "returned"
          /\ UNCHANGED <<idx, success_count, outcomes>>
     ELSE /\ success_count' = Count(ok)
          /\ outcomes' = Append(outcomes, [item |-> idx + 1, ok |-> ok])
          /\ idx' = idx + 1
          /\ pc' = LoopAfter(ok)

\* the item goes on to its next step: the loop's own variables stay
Continue(p) ==
  /\ pc' = p
  /\ UNCHANGED <<idx, success_count, outcomes, result>>

batchVars == <<entry, updates, restore_calls, restore_point_created>>

(***************************************************************************)
(* UpdateChecker.verify_download and DriverInstaller._generate_driver_filename *)
(***************************************************************************)
Abs(n) == IF n < 0 THEN -n ELSE n

VerifiedExts == {".exe", ".msi", ".inf"}

\* size = -1: os.path.exists is false.  expected = 0: no size to compare to.
\* abs(file_size - expected_bytes) > expected_bytes * 0.1 rejects.
VerifyDownload(size, expected, e) ==
  /\ size # -1
  /\ ~(expected # 0 /\ Abs(size - expected) * 100 > expected * SIZE_TOLERANCE_PCT)
  /\ e \in VerifiedExts

SessionDeviceNames == {"gpu", "a/b", " lan "}

\* the manufacturers a candidate can name: the vendor strategies write
\* "NVIDIA", the generic one copies the record's own
SessionManufacturers == {"NVIDIA", "a/b"}

\* _sanitize_filename on the names of SessionDeviceNames and
\* SessionManufacturers: each of <>:"/\|?* becomes "_", the name is cut to
\* 50 characters and then stripped
SanitizeFilename(filename) ==
  CASE filename = "a/b" -> "a_b"
    [] filename = " lan " -> "lan"
    [] OTHER -> filename

\* new_version is formatted into the name as it is
SessionUpdates ==
  [device_name : SessionDeviceNames, manufacturer : SessionManufacturers,
   new_version : {"1.0", "1.0.msi"}]

\* key in manufacturer.lower(), for the manufacturers of SessionManufacturers
InLowered(key, manufacturer) == key = "nvidia" /\ manufacturer = "NVIDIA"

\* a chain whose last branch chooses ".msi"
ExtensionFor_m(manufacturer) ==
  IF InLowered("nvidia", manufacturer) THEN ".exe"
  ELSE IF InLowered("amd", manufacturer) THEN ".exe"
  ELSE IF InLowered("intel", manufacturer) THEN ".exe"
  ELSE ".msi"

\* the if/elif/else chain on the manufacturer: ext is ".exe" in every branch
ExtensionFor(manufacturer) ==
  IF InLowered("nvidia", manufacturer) THEN ".exe"
  ELSE IF InLowered("amd", manufacturer) THEN ".exe"
  ELSE IF InLowered("intel", manufacturer) THEN ".exe"
  ELSE ".exe"

\* _generate_driver_filename:
\* f"{safe_manufacturer}_{safe_device_name}_{version}{ext}", by its pieces
GenerateDriverFilename(update) ==
  <<SanitizeFilename(update.manufacturer), "_",
    SanitizeFilename(update.device_name), "_", update.new_version,
    ExtensionFor(update.manufacturer)>>

\* os.path.splitext(name)[1] of a name whose last piece begins with its
\* last dot
SplitExt(name) == name[Len(name)]

\* os.path.splitext(...)[1].lower(), as the dispatchers read an extension
Lower(f) == IF f = ".INF" THEN ".inf" ELSE f

\* the extension _install_driver_file reads from the name of the staged file
GenerateDriverFilenameExt(u) == Lower(SplitExt(GenerateDriverFilename(u)))

(***************************************************************************)
(* The batch loops.                                                        *)
(***************************************************************************)
\* install_updates, up to the loop: one create_restore_point, whose failure
\* is logged as a warning
InstallUpdates ==
  /\ entry = "install_updates" /\ pc = "entry"
  /\ \E out \in Outcomes :
       restore_point_created' =
         (IF out.t = "exit" /\ out.rc = 0 THEN "True" ELSE "False")
  /\ restore_calls' = restore_calls + 1
  /\ success_count' = 0
  /\ pc' = IF Len(updates) = 0 THEN "done" ELSE "next"
  /\ UNCHANGED <<entry, updates, idx, outcomes, calls, lastOut, backup_out,
                 driver_file, ext, param_i, zipVars, result, fetched,
                 verified, flag_timeouts>>
  /\ UNCHANGED otherThanInstall

\* install_updates_thread, up to the loop: sets the installer's modes; makes
\* no call to create_restore_point
InstallUpdatesThread ==
  /\ entry = "install_updates_thread" /\ pc = "entry"
  /\ success_count' = 0
  /\ pc' = IF Len(updates) = 0 THEN "done" ELSE "next"
  /\ UNCHANGED <<entry, updates, idx, outcomes, restore_calls,
                 restore_point_created, calls, lastOut, backup_out,
                 driver_file, ext, param_i, zipVars, result, fetched,
                 verified, flag_timeouts>>
  /\ UNCHANGED otherThanInstall

\* what an item starts from
ResetItem ==
  /\ calls' = <<>>
  /\ lastOut' = NoOut
  /\ backup_out' = NoOut
  /\ driver_file' = "none"
  /\ ext' = ""
  /\ param_i' = 1
  /\ inner_left' = 0
  /\ extracted' = <<>>
  /\ installed' = <<>>
  /\ fetched' = "unset"
  /\ verified' = "unset"
  /\ flag_timeouts' = TRUE

(***************************************************************************)
(* DriverInstaller._install_single_update (the batch path)                 *)
(***************************************************************************)
InstallSingleUpdate_m ==
  /\ entry = "install_updates" /\ pc = "next"
  /\ ResetItem
  /\ LET download_url == updates[idx + 1].download_url
     IN CASE download_url = "" -> Return(FALSE)
          [] download_url = "windows_update" -> Continue("windows_update")
          [] OTHER -> Continue("download")
  /\ UNCHANGED batchVars
  /\ UNCHANGED otherThanInstall

InstallSingleUpdate ==
  /\ entry = "install_updates" /\ pc = "next"
  /\ ResetItem
  /\ LET download_url == updates[idx + 1].download_url
     IN CASE download_url = "" -> Return(FALSE)
          [] download_url = "windows_update" -> Continue("windows_update")
          [] download_url = "generic_update" -> Return(FALSE)
          [] OTHER -> Continue("download")
  /\ UNCHANGED batchVars
  /\ UNCHANGED otherThanInstall

Bool(b) == IF b THEN "True" ELSE "False"

AfterDownload_unverified(got, ok) == IF got THEN "backup" ELSE "failed"

\* _download_driver returns the path only when download_driver returned True
\* and verify_download returned True; _install_single_update returns False on
\* None
AfterDownload(got, ok) == IF got /\ ok THEN "backup" ELSE "failed"

\* _download_driver: UpdateChecker.download_driver, then verify_download on
\* the file it wrote
DownloadDriver ==
  /\ entry = "install_updates" /\ pc = "download"
  /\ \E got \in BOOLEAN, size \in FileSizes, named \in SessionUpdates :
       LET u == updates[idx + 1]
           e == GenerateDriverFilenameExt(named)
           ok == VerifyDownload(size, u.download_size, e)
       IN /\ fetched' = Bool(got)
          /\ verified' = (IF got THEN Bool(ok) ELSE "unset")
          /\ calls' = (IF got
                       THEN calls \o <<Call("download", ""), Call("verify", "")>>
                       ELSE Append(calls, Call("download", "")))
          /\ IF AfterDownload(got, ok) = "backup"
             THEN /\ driver_file' = "staged"
                  /\ ext' = e
                  /\ Continue("backup")
             ELSE /\ Return(FALSE)
                  /\ UNCHANGED <<driver_file, ext>>
  /\ UNCHANGED <<batchVars, lastOut, backup_out, param_i, zipVars,
                 flag_timeouts>>
  /\ UNCHANGED otherThanInstall

BackupOutcomes == {o \in Outcomes : o.t = "exit" => o.rc \in {0, 1}}

AfterBackup_m ==
  IF ~(backup_out'.t = "exit" /\ backup_out'.rc = 0) THEN "failed"
  ELSE IF entry = "install_updates" THEN "install" ELSE "download_interactive"

\* where the item goes after the backup: on to the next step, whatever the
\* export did
AfterBackup ==
  IF entry = "install_updates" THEN "install" ELSE "download_interactive"

\* _backup_current_driver: pnputil /export-driver; returns nothing, and every
\* failure is a warning
BackupCurrentDriver ==
  /\ entry \in BatchEntries /\ pc = "backup"
  /\ \E out \in BackupOutcomes : backup_out' = out
  /\ calls' = Append(calls, Call("backup", ""))
  /\ Continue(AfterBackup)
  /\ UNCHANGED <<batchVars, lastOut, driver_file, ext, param_i, zipVars,
                 fetched, verified, flag_timeouts>>
  /\ UNCHANGED otherThanInstall

\* _install_via_windows_update: success is ResultCode 2 of the installer
InstallViaWindowsUpdate ==
  /\ entry = "install_updates" /\ pc = "windows_update"
  /\ \E out \in Outcomes :
       /\ lastOut' = out
       /\ Return(out.t = "exit" /\ out.rc = ORC_SUCCEEDED)
  /\ calls' = Append(calls, Call("powershell", "windows_update"))
  /\ UNCHANGED <<batchVars, backup_out, driver_file, ext, param_i, zipVars,
                 fetched, verified, flag_timeouts>>
  /\ UNCHANGED otherThanInstall

(***************************************************************************)
(* DriverInstaller._install_driver_file and its strategies                 *)
(***************************************************************************)
InstallDriverFile ==
  /\ entry \in {"install_updates", "_install_driver_file"} /\ pc = "install"
  /\ CASE ext = ".exe" -> Continue("exe_loop")
       [] ext = ".msi" -> Continue("msi")
       [] ext = ".inf" -> Continue("inf")
       [] OTHER -> Return(FALSE)
  /\ UNCHANGED <<batchVars, calls, lastOut, backup_out, driver_file, ext,
                 param_i, zipVars, fetched, verified, flag_timeouts>>
  /\ UNCHANGED otherThanInstall

ExitedWith(out, codes) == out.t = "exit" /\ out.rc \in codes

ExeSuccess_m(out) == ExitedWith(out, {0})

\* returncode == 0, or returncode == 3010 (reboot required)
ExeSuccess(out) == ExitedWith(out, {0, REBOOT_REQUIRED})

AfterFlag_m(out) ==
  IF out.t = "timeout" THEN "failed"
  ELSE IF param_i < Len(silent_params) THEN "exe_loop" ELSE "exe_fallback"

AfterFlag_stop(out) ==
  IF ExitedWith(out, ExitCodes) THEN "failed"
  ELSE IF param_i < Len(silent_params) THEN "exe_loop" ELSE "exe_fallback"

AfterFlag_nofallback(out) ==
  IF param_i < Len(silent_params) THEN "exe_loop" ELSE "failed"

\* an attempt that did not succeed: any other exit code falls out of the
\* if/elif, TimeoutExpired and Exception `continue`; all go to the next flag,
\* and after the last flag to _install_interactive
AfterFlag(out) ==
  IF param_i < Len(silent_params) THEN "exe_loop" ELSE "exe_fallback"

\* for param in silent_params
NextParam == param_i + 1

\* _install_exe_driver: one iteration of the loop over silent_params
InstallExeDriver ==
  /\ entry \in {"install_updates", "_install_driver_file"} /\ pc = "exe_loop"
  /\ param_i <= Len(silent_params)
  /\ calls' = Append(calls, Call("exe", silent_params[param_i]))
  /\ \E out \in Outcomes :
       /\ lastOut' = out
       /\ flag_timeouts' = (flag_timeouts /\ out.t = "timeout")
       /\ IF ExeSuccess(out)
          THEN Return(TRUE) /\ UNCHANGED param_i
          ELSE IF AfterFlag(out) = "failed"
               THEN Return(FALSE) /\ UNCHANGED param_i
               ELSE Continue(AfterFlag(out)) /\ param_i' = NextParam
  /\ UNCHANGED <<batchVars, backup_out, driver_file, ext, zipVars, fetched,
                 verified>>
  /\ UNCHANGED otherThanInstall

\* _install_interactive: the payload with no flags
InstallInteractive ==
  /\ entry \in {"install_updates", "_install_driver_file"} /\ pc = "exe_fallback"
  /\ calls' = Append(calls, Call("exe", ""))
  /\ \E out \in Outcomes :
       /\ lastOut' = out
       /\ Return(ExitedWith(out, {0, REBOOT_REQUIRED}))
  /\ UNCHANGED <<batchVars, backup_out, driver_file, ext, param_i, zipVars,
                 fetched, verified, flag_timeouts>>
  /\ UNCHANGED otherThanInstall

\* _install_msi_driver: 0 and 3010 are success
MsiSuccess(out) == ExitedWith(out, {0, REBOOT_REQUIRED})

InstallMsiDriver ==
  /\ entry = "_install_driver_file" /\ pc = "msi"
  /\ calls' = Append(calls, Call("msiexec", "/i /quiet /norestart"))
  /\ \E out \in Outcomes :
       /\ lastOut' = out
       /\ Return(MsiSuccess(out))
  /\ UNCHANGED <<batchVars, backup_out, driver_file, ext, param_i, zipVars,
                 fetched, verified, flag_timeouts>>
  /\ UNCHANGED otherThanInstall

InstallInfDriver_m ==
  /\ entry = "_install_driver_file" /\ pc = "inf"
  /\ calls' = Append(calls, Call("pnputil_add", "/install"))
  /\ \E out \in Outcomes :
       /\ lastOut' = out
       /\ Return(ExitedWith(out, {0, REBOOT_REQUIRED}))
  /\ UNCHANGED <<batchVars, backup_out, driver_file, ext, param_i, zipVars,
                 fetched, verified, flag_timeouts>>
  /\ UNCHANGED otherThanInstall

\* _install_inf_driver: pnputil /add-driver ... /install
InstallInfDriver ==
  /\ entry = "_install_driver_file" /\ pc = "inf"
  /\ calls' = Append(calls, Call("pnputil_add", "/install"))
  /\ \E out \in Outcomes :
       /\ lastOut' = out
       /\ Return(ExitedWith(out, {0}))
  /\ UNCHANGED <<batchVars, backup_out, driver_file, ext, param_i, zipVars,
                 fetched, verified, flag_timeouts>>
  /\ UNCHANGED otherThanInstall

(***************************************************************************)
(* DriverInstaller.install_single_update_interactive (the GUI's path)      *)
(***************************************************************************)
InstallSingleUpdateInteractive ==
  /\ entry = "install_updates_thread" /\ pc = "next"
  /\ ResetItem
  /\ LET download_url == updates[idx + 1].download_url
     IN CASE download_url = "" -> Return(FALSE)
          [] download_url = "windows_update" -> Continue("windows_update_interactive")
          [] download_url = "generic_update" -> Return(FALSE)
          [] OTHER -> Continue("backup")
  /\ UNCHANGED batchVars
  /\ UNCHANGED otherThanInstall

\* DriverInstaller.__init__ sets logger, temp_dir, backup_dir, verbose_mode
\* and interactive_mode: no attribute `session`
SessionDefined == FALSE

\* _download_driver_interactive: self.session.get(...) is inside the try;
\* the AttributeError is caught and the method returns None.  (With a session
\* the call _generate_driver_filename(update, response) passes one argument
\* too many, which is caught the same way.)  No request is sent.
\* _generate_driver_filename(update, response): the method takes update only
FilenameCallFits == FALSE

\* a download step whose try block runs through
DownloadInteractiveRaises_m == FALSE

\* the try block of _download_driver_interactive raises
DownloadInteractiveRaises == ~SessionDefined \/ ~FilenameCallFits

DownloadDriverInteractive ==
  /\ entry = "install_updates_thread" /\ pc = "download_interactive"
  /\ IF DownloadInteractiveRaises
     THEN /\ Return(FALSE)
          /\ UNCHANGED <<driver_file, ext>>
     ELSE /\ driver_file' = "staged"
          /\ ext' = ".exe"
          /\ Continue("install")
  /\ UNCHANGED <<batchVars, calls, lastOut, backup_out, param_i, zipVars,
                 fetched, verified, flag_timeouts>>
  /\ UNCHANGED otherThanInstall

\* _install_via_windows_update_interactive: success is exit code 0
InstallViaWindowsUpdateInteractive ==
  /\ entry = "install_updates_thread" /\ pc = "windows_update_interactive"
  /\ \E out \in Outcomes :
       /\ lastOut' = out
       /\ Return(ExitedWith(out, {0}))
  /\ calls' = Append(calls, Call("powershell", "Get-WindowsUpdate"))
  /\ UNCHANGED <<batchVars, backup_out, driver_file, ext, param_i, zipVars,
                 fetched, verified, flag_timeouts>>
  /\ UNCHANGED otherThanInstall

(***************************************************************************)
(* DriverInstaller._install_driver_file_interactive and its strategies     *)
(***************************************************************************)
InstallDriverFileInteractive ==
  /\ entry = "_install_driver_file_interactive" /\ pc = "install"
  /\ CASE ext = ".exe" -> Continue("exe_interactive")
       [] ext = ".msi" -> Continue("msi_interactive")
       [] ext \in {".inf", ".cat", ".sys"} -> Continue("inf_interactive")
       [] ext = ".zip" -> Continue("zip")
       [] OTHER -> Return(FALSE)
  /\ UNCHANGED <<batchVars, calls, lastOut, backup_out, driver_file, ext,
                 param_i, zipVars, fetched, verified, flag_timeouts>>
  /\ UNCHANGED otherThanInstall

\* _install_exe_driver_interactive: one run with /S /silent /quiet
\* /norestart; returncode == 0 is the only success
InstallExeDriverInteractive ==
  /\ entry = "_install_driver_file_interactive" /\ pc = "exe_interactive"
  /\ calls' = Append(calls, Call("exe", "/S /silent /quiet /norestart"))
  /\ \E out \in Outcomes :
       /\ lastOut' = out
       /\ Return(ExitedWith(out, {0}))
  /\ UNCHANGED <<batchVars, backup_out, driver_file, ext, param_i, zipVars,
                 fetched, verified, flag_timeouts>>
  /\ UNCHANGED otherThanInstall

\* _install_msi_driver_interactive: returncode == 0 is the only success
InstallMsiDriverInteractive ==
  /\ entry = "_install_driver_file_interactive" /\ pc = "msi_interactive"
  /\ calls' = Append(calls, Call("msiexec", "/i /quiet /norestart"))
  /\ \E out \in Outcomes :
       /\ lastOut' = out
       /\ Return(ExitedWith(out, {0}))
  /\ UNCHANGED <<batchVars, backup_out, driver_file, ext, param_i, zipVars,
                 fetched, verified, flag_timeouts>>
  /\ UNCHANGED otherThanInstall

\* _install_inf_driver_interactive
InstallInfDriverInteractive ==
  /\ entry = "_install_driver_file_interactive" /\ pc = "inf_interactive"
  /\ calls' = Append(calls, Call("pnputil_add", "/install"))
  /\ \E out \in Outcomes :
       /\ lastOut' = out
       /\ Return(ExitedWith(out, {0}))
  /\ UNCHANGED <<batchVars, backup_out, driver_file, ext, param_i, zipVars,
                 fetched, verified, flag_timeouts>>
  /\ UNCHANGED otherThanInstall

\* names the files of an extracted archive can have, by their endings as
\* spelled
InnerSuffixes == {".inf", ".INF", ".cat", ".txt"}

\* file.endswith((".inf", ".sys", ".cat")): the comparison is case-sensitive
IsDriverFile(f) == f \in {".inf", ".sys", ".cat"}

\* the first position from k on of a file the test accepts, 0 when none
RECURSIVE NextDriverFile(_, _)
NextDriverFile(files, k) ==
  IF k > Len(files) THEN 0
  ELSE IF IsDriverFile(files[k]) THEN k
  ELSE NextDriverFile(files, k + 1)

\* _install_zip_driver_interactive: shutil.unpack_archive, which may raise,
\* then the walk over the extracted tree
ZipExtract ==
  /\ entry = "_install_driver_file_interactive" /\ pc = "zip"
  /\ \/ /\ calls' = Append(calls, Call("unpack_archive", "raised"))
        /\ Return(FALSE)
        /\ UNCHANGED <<extracted, inner_left, installed>>
     \/ \E files \in SeqsUpTo(InnerSuffixes, MaxInner) :
          /\ calls' = Append(calls, Call("unpack_archive", "done"))
          /\ extracted' = files
          /\ installed' = <<>>
          /\ inner_left' = Cardinality({k \in 1..Len(files) : IsDriverFile(files[k])})
          /\ IF NextDriverFile(files, 1) = 0
             THEN Return(TRUE) ELSE Continue("zip_inner")
  /\ UNCHANGED <<batchVars, lastOut, backup_out, driver_file, ext, param_i,
                 fetched, verified, flag_timeouts>>
  /\ UNCHANGED otherThanInstall

\* the loop body: _install_inf_driver_interactive on the next file the test
\* accepts, its result dropped
ZipInstallInner ==
  /\ entry = "_install_driver_file_interactive" /\ pc = "zip_inner"
  /\ inner_left > 0
  /\ LET from == IF installed = <<>> THEN 1 ELSE installed[Len(installed)] + 1
     IN installed' = Append(installed, NextDriverFile(extracted, from))
  /\ calls' = Append(calls, Call("pnputil_add", "/install"))
  /\ \E out \in Outcomes : lastOut' = out
  /\ inner_left' = inner_left - 1
  /\ IF inner_left = 1 THEN Return(TRUE) ELSE Continue("zip_inner")
  /\ UNCHANGED <<batchVars, backup_out, driver_file, ext, param_i, fetched,
                 verified, flag_timeouts, extracted>>
  /\ UNCHANGED otherThanInstall


(***************************************************************************)
(* update_checker.py: versions.                                            *)
(*                                                                         *)
(* A version string is the sequence of its dot-separated tokens.  A token  *)
(* that int() parses is its number; -1 is the token "Unknown", which int() *)
(* rejects and which is no part of a valid PEP 440 version ("abc" is       *)
(* another such token); -3 is the token "rc1", which int() rejects and     *)
(* which at the end of a version is a PEP 440 pre-release marker:          *)
(* "1.0.rc1" is the release candidate of 1.0.                              *)
(***************************************************************************)
UNKNOWN == -1
PRE == -3

IsNumeric(v) == \A k \in 1..Len(v) : v[k] >= 0

Max(a, b) == IF a > b THEN a ELSE b

\* new_parts.extend([0] * (max_len - len(new_parts)))
Pad(v, n) == [k \in 1..n |-> IF k <= Len(v) THEN v[k] ELSE 0]

\* Python's > on tuples and lists: the first differing element decides, and
\* a proper prefix is smaller
SeqGreater(a, b) ==
  \E i \in 1..Len(a) :
    /\ \A j \in 1..(i - 1) : j <= Len(b) /\ a[j] = b[j]
    /\ (i > Len(b) \/ a[i] > b[i])

RECURSIVE StripZeros(_)
StripZeros(v) ==
  IF v # <<>> /\ v[Len(v)] = 0 THEN StripZeros(SubSeq(v, 1, Len(v) - 1)) ELSE v

\* packaging < 22, _legacy_cmpkey: numeric parts zero-filled, other parts
\* starred (and sorting before every number), trailing zero parts dropped
\* before a starred part, "*final" at the end (-2: it sorts before "*unknown")
RECURSIVE LegacyKey(_, _)
LegacyKey(v, acc) ==
  IF v = <<>> THEN Append(StripZeros(acc), -2)
  ELSE IF Head(v) < 0
       THEN LegacyKey(Tail(v), Append(StripZeros(acc), Head(v)))
       ELSE LegacyKey(Tail(v), Append(acc, Head(v)))

\* version.parse(new_version) > version.parse(current_version) for two
\* versions of numbers: the release segments, trailing zeros aside; the
\* fallback of the source pads and compares the same way
NumericNewer(new, cur) ==
  LET n == Max(Len(new), Len(cur)) IN SeqGreater(Pad(new, n), Pad(cur, n))

\* a release followed by the pre-release marker
IsPreRelease(v) ==
  /\ Len(v) >= 2
  /\ v[Len(v)] = PRE
  /\ IsNumeric(SubSeq(v, 1, Len(v) - 1))

\* what version.parse accepts as a Version
IsPep440(v) == IsNumeric(v) \/ IsPreRelease(v)

Release(v) == IF IsPreRelease(v) THEN SubSeq(v, 1, Len(v) - 1) ELSE v

\* Version.__gt__: the release segments decide, trailing zeros aside; of the
\* same release the final version is greater than its pre-release
Pep440Newer(new, cur) ==
  \/ NumericNewer(Release(new), Release(cur))
  \/ /\ ~NumericNewer(Release(cur), Release(new))
     /\ ~IsPreRelease(new)
     /\ IsPreRelease(cur)

IsVersionNewer_m(new, cur, legacy) ==
  IF IsNumeric(new) /\ IsNumeric(cur) THEN SeqGreater(new, cur)
  ELSE FALSE

\* _is_version_newer.  Two versions version.parse accepts are compared by
\* it.  With a string it rejects: packaging >= 22 raises InvalidVersion, the
\* fallback's int() raises ValueError on the token that is no number, and
\* the result is False; packaging < 22 parses the string to a LegacyVersion,
\* which sorts before every Version.
IsVersionNewer(new, cur, legacy) ==
  IF IsPep440(new) /\ IsPep440(cur) THEN Pep440Newer(new, cur)
  ELSE IF ~legacy THEN FALSE
  ELSE IF IsPep440(new) THEN TRUE
  ELSE IF IsPep440(cur) THEN FALSE
  ELSE SeqGreater(LegacyKey(new, <<>>), LegacyKey(cur, <<>>))

\* _generate_mock_version if int() were applied to every part
GenerateMockVersion_m(cur) ==
  IF Len(cur) >= 2 /\ IsNumeric(cur)
  THEN <<cur[1], cur[2],
         (IF Len(cur) > 2 THEN cur[3] ELSE 0) + 1,
         (IF Len(cur) > 3 THEN cur[4] ELSE 0)>>
  ELSE <<1, 0, 0, 1>>

\* _generate_mock_version: with two parts or more, int() of the first four
\* parts that exist (a failure of int() falls to the except), build + 1;
\* otherwise "1.0.0.1"
GenerateMockVersion(cur) ==
  IF /\ Len(cur) >= 2
     /\ \A k \in 1..4 : k <= Len(cur) => cur[k] >= 0
  THEN <<cur[1], cur[2],
         (IF Len(cur) > 2 THEN cur[3] ELSE 0) + 1,
         (IF Len(cur) > 3 THEN cur[4] ELSE 0)>>
  ELSE <<1, 0, 0, 1>>

(***************************************************************************)
(* update_checker.py: the strategies.                                      *)
(*                                                                         *)
(* Of a manufacturer and of a device name the code only asks which words   *)
(* occur in them, lower-cased: each is modelled as the set of those words. *)
(* "series" says that _extract_nvidia_gpu_series finds a match.            *)
(***************************************************************************)
\* the keys of self.update_checkers, in insertion order
update_checkers == <<"nvidia", "amd", "intel", "realtek", "microsoft", "generic">>

\* a field that is None rather than a string.  _scan_drivers_with_powershell
\* stores driver.get("DriverProviderName", "Unknown") as the manufacturer,
\* which is None when the JSON of the scan has null for the provider; a device
\* name of None comes only from a caller that builds its own records.
NoneValue == "<None>"

DeviceKinds ==
  { [manufacturer |-> {"nvidia"}, device_name |-> {"nvidia", "geforce", "series"}],
    [manufacturer |-> {"nvidia"}, device_name |-> {"nvidia"}],
    [manufacturer |-> {"amd"}, device_name |-> {"amd", "radeon"}],
    [manufacturer |-> {"intel"}, device_name |-> {"intel"}],
    [manufacturer |-> {"intel"}, device_name |-> {}],
    [manufacturer |-> {"realtek"}, device_name |-> {"realtek"}],
    [manufacturer |-> {"microsoft"}, device_name |-> {}],
    [manufacturer |-> {"microsoft"}, device_name |-> {"amd", "radeon"}],
    [manufacturer |-> {}, device_name |-> {}],
    [manufacturer |-> {NoneValue}, device_name |-> {"intel"}],
    [manufacturer |-> {"nvidia"}, device_name |-> {NoneValue}] }

\* "Unknown", "2", "1.0", "1.Unknown", "1.0.0.1"
DriverVersions == {<<UNKNOWN>>, <<2>>, <<1, 0>>, <<1, UNKNOWN>>, <<1, 0, 0, 1>>}

\* most driver records handed to check_for_updates
MaxDrivers == 2

\* _check_driver_update: the first key that occurs in the manufacturer or in
\* the device name, else "generic"
SelectChecker(driver) ==
  LET hits == {k \in 1..Len(update_checkers) :
                 update_checkers[k] \in driver.manufacturer \cup driver.device_name}
  IN IF hits = {} THEN "generic"
     ELSE update_checkers[CHOOSE k \in hits : \A j \in hits : k <= j]

\* _check_driver_update raises before it has a strategy: manufacturer.lower()
\* on None, or device_name.lower() on None in the first test of the loop that
\* gets past "mfg_key in manufacturer" (only "nvidia" in the manufacturer
\* keeps the loop from reaching it)
SelectionRaises(driver) ==
  \/ NoneValue \in driver.manufacturer
  \/ NoneValue \in driver.device_name /\ "nvidia" \notin driver.manufacturer

\* the strategy raises: the first statement of a vendor strategy,
\* driver.get("device_name", "").lower(), stands outside its try
StrategyRaises(checker, driver) ==
  checker \in {"nvidia", "amd", "intel", "realtek"} /\ NoneValue \in driver.device_name

\* the device-name test each vendor strategy starts with
VendorGate(checker, driver) ==
  CASE checker = "nvidia" ->
         /\ driver.device_name \cap {"nvidia", "geforce", "quadro"} # {}
         /\ "series" \in driver.device_name
    [] checker = "amd" -> driver.device_name \cap {"amd", "radeon", "ati"} # {}
    [] checker = "intel" -> "intel" \in driver.device_name
    [] checker = "realtek" -> "realtek" \in driver.device_name
    [] OTHER -> TRUE

VendorCheckers == {"nvidia", "amd", "intel", "realtek"}

\* the version of a record is read only by a strategy that gets as far as
\* _generate_mock_version: the records whose strategy is never selected,
\* raises or returns at its device-name test are drawn with one version
VersionsRead(d) ==
  IF \/ SelectionRaises(d)
     \/ StrategyRaises(SelectChecker(d), d)
     \/ ~VendorGate(SelectChecker(d), d)
  THEN {<<UNKNOWN>>}
  ELSE DriverVersions

DriverRecords ==
  UNION { { [manufacturer |-> d.manufacturer, device_name |-> d.device_name,
             version |-> v] : v \in VersionsRead(d) } : d \in DeviceKinds }

Candidate(i, driver, checker) ==
  [record |-> i,
   current_version |-> driver.version,
   new_version |-> GenerateMockVersion(driver.version),
   download_url |-> (CASE checker = "microsoft" -> "windows_update"
                       [] checker = "generic" -> "generic_update"
                       [] OTHER -> "http"),
   checker |-> checker]

\* what a strategy asks of the versions before it returns a candidate: the
\* four vendor strategies return one only if _is_version_newer; the microsoft
\* and generic strategies return theirs without comparing
EmitGate(checker, new, cur, legacy) ==
  checker \in VendorCheckers => IsVersionNewer(new, cur, legacy)

\* the candidates the strategy can return for the record; {} is None.  The
\* microsoft and generic strategies draw random.random() and so may return
\* None for any record.
CheckerResults(i, driver, checker) ==
  LET c == Candidate(i, driver, checker)
      may == /\ VendorGate(checker, driver)
             /\ EmitGate(checker, c.new_version, c.current_version, legacy_packaging)
  IN IF checker \in VendorCheckers
     THEN (IF may THEN {<<c>>} ELSE {<<>>})
     ELSE (IF may THEN {<<c>>, <<>>} ELSE {<<>>})

(***************************************************************************)
(* UpdateChecker.check_for_updates                                         *)
(***************************************************************************)
CheckForUpdates ==
  /\ rpc = "entry"
  /\ updates_available' = <<>>
  /\ rpc' = IF drivers_data = <<>> THEN "done" ELSE "callback"
  /\ UNCHANGED <<drivers_data, legacy_packaging, has_callback, r_i,
                 progress_calls, consulted>>
  /\ UNCHANGED otherThanResolve

\* the arguments of progress_callback(i + 1, len(drivers_data),
\* driver.get("device_name", "Unknown")) for the i-th record, i from 0
ProgressArgs(i) ==
  [current |-> i + 1, total |-> Len(drivers_data),
   device_name |-> drivers_data[i + 1].device_name]

\* ProgressCallback passing the loop index i instead of i + 1
ProgressCallback_m ==
  /\ rpc = "callback"
  /\ IF has_callback
     THEN /\ progress_calls' = Append(progress_calls,
                                      [ProgressArgs(r_i) EXCEPT !.current = r_i])
          /\ \/ rpc' = "check" /\ UNCHANGED r_i
             \/ /\ r_i' = r_i + 1
                /\ rpc' = IF r_i + 1 < Len(drivers_data) THEN "callback" ELSE "done"
     ELSE /\ rpc' = "check"
          /\ UNCHANGED <<progress_calls, r_i>>
  /\ UNCHANGED <<drivers_data, legacy_packaging, has_callback,
                 updates_available, consulted>>
  /\ UNCHANGED otherThanResolve

\* ProgressCallback with a raising callback ending the loop
ProgressCallback_abort ==
  /\ rpc = "callback"
  /\ IF has_callback
     THEN /\ progress_calls' = Append(progress_calls, ProgressArgs(r_i))
          /\ \/ rpc' = "check" /\ UNCHANGED r_i
             \/ /\ r_i' = r_i + 1
                /\ rpc' = "done"
     ELSE /\ rpc' = "check"
          /\ UNCHANGED <<progress_calls, r_i>>
  /\ UNCHANGED <<drivers_data, legacy_packaging, has_callback,
                 updates_available, consulted>>
  /\ UNCHANGED otherThanResolve

\* the loop body up to the callback: progress_callback(i + 1, total, name)
\* when one was passed; if it raises, the except of the loop body logs the
\* error and the loop goes to the next record
ProgressCallback ==
  /\ rpc = "callback"
  /\ IF has_callback
     THEN /\ progress_calls' = Append(progress_calls, ProgressArgs(r_i))
          /\ \/ rpc' = "check" /\ UNCHANGED r_i
             \/ /\ r_i' = r_i + 1
                /\ rpc' = IF r_i + 1 < Len(drivers_data) THEN "callback" ELSE "done"
     ELSE /\ rpc' = "check"
          /\ UNCHANGED <<progress_calls, r_i>>
  /\ UNCHANGED <<drivers_data, legacy_packaging, has_callback,
                 updates_available, consulted>>
  /\ UNCHANGED otherThanResolve

\* CheckDriverUpdate with a raising strategy ending the loop
CheckDriverUpdate_m ==
  /\ rpc = "check"
  /\ LET driver == drivers_data[r_i + 1]
         checker == SelectChecker(driver)
         logged == [record |-> r_i + 1, ran |-> <<checker>>, raised |-> FALSE]
     IN IF SelectionRaises(driver)
        THEN /\ consulted' = Append(consulted, [logged EXCEPT !.ran = <<>>])
             /\ rpc' = IF r_i + 1 < Len(drivers_data) THEN "callback" ELSE "done"
             /\ UNCHANGED updates_available
        ELSE IF StrategyRaises(checker, driver)
        THEN /\ consulted' = Append(consulted, [logged EXCEPT !.raised = TRUE])
             /\ rpc' = "done"
             /\ UNCHANGED updates_available
        ELSE /\ consulted' = Append(consulted, logged)
             /\ rpc' = IF r_i + 1 < Len(drivers_data) THEN "callback" ELSE "done"
             /\ \E found \in CheckerResults(r_i + 1, driver, checker) :
                  updates_available' = updates_available \o found
  /\ r_i' = r_i + 1
  /\ UNCHANGED <<drivers_data, legacy_packaging, has_callback, progress_calls>>
  /\ UNCHANGED otherThanResolve

\* the rest of the loop body: _check_driver_update lower-cases the
\* manufacturer, selects one strategy and runs it, and a candidate returned
\* is appended.  An exception before the strategy is selected leaves
\* _check_driver_update and the except of the loop body goes to the next
\* record; an exception of the strategy is caught in _check_driver_update,
\* which then returns None.
CheckDriverUpdate ==
  /\ rpc = "check"
  /\ LET driver == drivers_data[r_i + 1]
         checker == SelectChecker(driver)
         logged == [record |-> r_i + 1, ran |-> <<checker>>, raised |-> FALSE]
     IN IF SelectionRaises(driver)
        THEN /\ consulted' = Append(consulted, [logged EXCEPT !.ran = <<>>])
             /\ UNCHANGED updates_available
        ELSE IF StrategyRaises(checker, driver)
        THEN /\ consulted' = Append(consulted, [logged EXCEPT !.raised = TRUE])
             /\ UNCHANGED updates_available
        ELSE /\ consulted' = Append(consulted, logged)
             /\ \E found \in CheckerResults(r_i + 1, driver, checker) :
                  updates_available' = updates_available \o found
  /\ r_i' = r_i + 1
  /\ rpc' = IF r_i + 1 < Len(drivers_data) THEN "callback" ELSE "done"
  /\ UNCHANGED <<drivers_data, legacy_packaging, has_callback, progress_calls>>
  /\ UNCHANGED otherThanResolve


(***************************************************************************)
(* main.py: the three operations of the GUI.  A start handler and a        *)
(* callback run on the Tk main thread, one at a time; a worker thread does *)
(* its work, stores the result, schedules its completion callback with     *)
(* root.after and ends.                                                    *)
(***************************************************************************)
\* most driver records a scan finds
MaxGuiItems == 2

Started(op) == [op |-> op, accepted |-> TRUE]
Rejected(op) == [op |-> op, accepted |-> FALSE]

\* an install_updates_thread just started on n selected updates
NewThread(n) == [items |-> n, running |-> 0]

\* the sequence without its w-th element
Remove(seq, w) == [k \in 1..(Len(seq) - 1) |-> IF k < w THEN seq[k] ELSE seq[k + 1]]

\* a thread that does not wait for its installer processes
CanStart_m(thread) == thread.running < 2

\* subprocess.run blocks the thread until the process has ended
CanStart(thread) == thread.running = 0

\* a scan that also waits for an installation batch to end
ScanBusy_m == scanning \/ installing

\* if self.scanning: return
ScanBusy == scanning

StartScan ==
  /\ IF ScanBusy
     THEN /\ last_start' = Rejected("scan")
          /\ UNCHANGED <<scanning, scan_workers, gui_drivers, check_stale,
                         updates_stale, scan_btn, check_updates_btn>>
     ELSE /\ scanning' = TRUE
          /\ gui_drivers' = 0
          /\ scan_workers' = scan_workers + 1
          /\ last_start' = Started("scan")
          /\ check_stale' = (check_workers > 0)
          /\ updates_stale' = (gui_updates > 0)
          /\ scan_btn' = FALSE
          /\ check_updates_btn' = FALSE
  /\ by_buttons' = (by_buttons /\ scan_btn)
  /\ UNCHANGED <<install_btn, is_admin>>
  /\ UNCHANGED <<checking_updates, installing, check_workers, install_workers,
                 after_queue, gui_updates, rows, selected, install_threads>>
  /\ UNCHANGED histVars
  /\ UNCHANGED otherThanGui

\* scan_drivers_thread: the scan's result is stored and on_scan_complete
\* scheduled, or the exception handler schedules on_scan_error
ScanDriversThread ==
  /\ scan_workers > 0
  /\ scan_workers' = scan_workers - 1
  /\ \/ \E n \in 0..MaxGuiItems :
          /\ gui_drivers' = n
          /\ scan_found' = (scan_found \/ n > 0)
          /\ after_queue' = Append(after_queue, "on_scan_complete")
     \/ /\ after_queue' = Append(after_queue, "on_scan_error")
        /\ UNCHANGED <<gui_drivers, scan_found>>
  /\ UNCHANGED <<scanning, checking_updates, installing, check_workers,
                 install_workers, gui_updates, rows, selected, last_start,
                 install_threads, check_stale, updates_stale>>
  /\ UNCHANGED btnVars
  /\ UNCHANGED check_found
  /\ UNCHANGED otherThanGui

\* the guard without the test of self.drivers_data
CheckBusy_m == checking_updates

\* if self.checking_updates or not self.drivers_data: return
CheckBusy == checking_updates \/ gui_drivers = 0

StartUpdateCheck ==
  /\ IF CheckBusy
     THEN /\ last_start' = Rejected("check")
          /\ UNCHANGED <<checking_updates, check_workers, gui_updates, rows,
                         selected, check_stale, updates_stale,
                         check_updates_btn, install_btn>>
     ELSE /\ checking_updates' = TRUE
          /\ rows' = 0
          /\ selected' = 0
          /\ gui_updates' = 0
          /\ check_workers' = check_workers + 1
          /\ last_start' = Started("check")
          /\ check_stale' = FALSE
          /\ updates_stale' = FALSE
          /\ check_updates_btn' = FALSE
          /\ install_btn' = FALSE
  /\ by_buttons' = (by_buttons /\ check_updates_btn)
  /\ UNCHANGED <<scan_btn, is_admin>>
  /\ UNCHANGED <<scanning, installing, scan_workers, install_workers,
                 after_queue, gui_drivers, install_threads>>
  /\ UNCHANGED histVars
  /\ UNCHANGED otherThanGui

\* check_updates_thread: check_for_updates over self.drivers_data gives at
\* most one candidate per record
CheckUpdatesThread ==
  /\ check_workers > 0
  /\ check_workers' = check_workers - 1
  /\ \/ \E n \in 0..gui_drivers :
          /\ gui_updates' = n
          /\ updates_stale' = (n > 0 /\ check_stale)
          /\ after_queue' = Append(after_queue, "on_update_check_complete")
     \/ /\ after_queue' = Append(after_queue, "on_update_check_error")
        /\ UNCHANGED <<gui_updates, updates_stale>>
  /\ UNCHANGED <<scanning, checking_updates, installing, scan_workers,
                 install_workers, gui_drivers, rows, selected, last_start,
                 install_threads, check_stale>>
  /\ UNCHANGED btnVars
  /\ UNCHANGED histVars
  /\ UNCHANGED otherThanGui

\* on_update_item_click, select_all_updates, select_no_updates
SelectUpdates ==
  /\ \E n \in 0..rows : selected' = n /\ n # selected
  /\ UNCHANGED <<scanning, checking_updates, installing, scan_workers,
                 check_workers, install_workers, after_queue, gui_drivers,
                 gui_updates, rows, last_start, install_threads, check_stale,
                 updates_stale>>
  /\ UNCHANGED btnVars
  /\ UNCHANGED histVars
  /\ UNCHANGED otherThanGui

InstallBusy_m == gui_updates = 0

\* if not self.updates_available or self.installing: return
InstallBusy == gui_updates = 0 \/ installing

\* start_installation: the ticked rows that match a candidate, the warning
\* when there is none, the modal confirmation unless auto_install is set
StartInstallation ==
  /\ IF InstallBusy
     THEN /\ last_start' = Rejected("install")
          /\ UNCHANGED <<installing, install_workers, install_threads,
                         install_btn>>
     ELSE \/ /\ selected > 0
             /\ installing' = TRUE
             /\ install_workers' = install_workers + 1
             /\ install_threads' = Append(install_threads, NewThread(selected))
             /\ last_start' = Started("install")
             /\ install_btn' = FALSE
          \/ /\ last_start' = [op |-> "install_not_confirmed", accepted |-> FALSE]
             /\ UNCHANGED <<installing, install_workers, install_threads,
                            install_btn>>
  /\ by_buttons' = (by_buttons /\ install_btn)
  /\ UNCHANGED <<scan_btn, check_updates_btn, is_admin>>
  /\ UNCHANGED <<scanning, checking_updates, scan_workers, check_workers,
                 after_queue, gui_drivers, gui_updates, rows, selected,
                 check_stale, updates_stale>>
  /\ UNCHANGED histVars
  /\ UNCHANGED otherThanGui

\* what the installation worker leaves alone
workerFrame ==
  <<scanning, checking_updates, installing, scan_workers, check_workers,
    gui_drivers, gui_updates, rows, selected, last_start, check_stale,
    updates_stale>>

\* a subprocess.run of an installer by one of the threads: run() returns
\* only when the process has ended (or was killed on timeout), so a thread
\* starts one only when it waits for none
InstallerStarts ==
  /\ \E w \in 1..Len(install_threads) :
       /\ install_threads[w].items > 0
       /\ CanStart(install_threads[w])
       /\ install_threads' =
            [install_threads EXCEPT ![w].running = install_threads[w].running + 1]
  /\ UNCHANGED <<install_workers, after_queue>>
  /\ UNCHANGED workerFrame
  /\ UNCHANGED btnVars
  /\ UNCHANGED histVars
  /\ UNCHANGED otherThanGui

\* the installer process ends: the item is over, or its strategy goes on
\* (the next inner file of an archive)
InstallerEnds ==
  /\ \E w \in 1..Len(install_threads) :
       /\ install_threads[w].running > 0
       /\ \E over \in BOOLEAN :
            install_threads' =
              [install_threads EXCEPT
                 ![w] = [items |-> IF over /\ @.running = 1 THEN @.items - 1
                                                             ELSE @.items,
                         running |-> @.running - 1]]
  /\ UNCHANGED <<install_workers, after_queue>>
  /\ UNCHANGED workerFrame
  /\ UNCHANGED btnVars
  /\ UNCHANGED histVars
  /\ UNCHANGED otherThanGui

\* install_single_update_interactive returns without an installer process:
\* no URL, a sentinel URL, a failed download, an unsupported file type
ItemWithoutInstaller ==
  /\ \E w \in 1..Len(install_threads) :
       /\ install_threads[w].items > 0
       /\ install_threads[w].running = 0
       /\ install_threads' =
            [install_threads EXCEPT ![w].items = install_threads[w].items - 1]
  /\ UNCHANGED <<install_workers, after_queue>>
  /\ UNCHANGED workerFrame
  /\ UNCHANGED btnVars
  /\ UNCHANGED histVars
  /\ UNCHANGED otherThanGui

\* install_updates_thread ends: after the last item on_installation_complete
\* is scheduled; an exception in the loop (outside
\* install_single_update_interactive, which catches its own) schedules
\* on_installation_error
InstallWorker ==
  /\ install_workers > 0
  /\ \E w \in 1..Len(install_threads) :
       /\ install_threads[w].running = 0
       /\ install_threads' = Remove(install_threads, w)
       /\ after_queue' =
            Append(after_queue, IF install_threads[w].items = 0
                                THEN "on_installation_complete"
                                ELSE "on_installation_error")
  /\ install_workers' = install_workers - 1
  /\ UNCHANGED workerFrame
  /\ UNCHANGED btnVars
  /\ UNCHANGED histVars
  /\ UNCHANGED otherThanGui

\* the handlers with on_scan_error leaving self.scanning as it is
ClearedBy_m(cb) ==
  CASE cb = "on_scan_complete" -> "scanning"
    [] cb \in {"on_update_check_complete", "on_update_check_error"} ->
         "checking_updates"
    [] cb \in {"on_installation_complete", "on_installation_error"} ->
         "installing"
    [] OTHER -> "none"

\* the busy flag a completion or error handler sets to False
ClearedBy(cb) ==
  CASE cb \in {"on_scan_complete", "on_scan_error"} -> "scanning"
    [] cb \in {"on_update_check_complete", "on_update_check_error"} ->
         "checking_updates"
    [] cb \in {"on_installation_complete", "on_installation_error"} ->
         "installing"
    [] OTHER -> "none"

\* the Tk main loop runs the oldest scheduled callback
RunAfter ==
  /\ after_queue # <<>>
  /\ after_queue' = Tail(after_queue)
  /\ LET cb == Head(after_queue)
     IN /\ scanning' = (IF ClearedBy(cb) = "scanning" THEN FALSE ELSE scanning)
        /\ checking_updates' =
             (IF ClearedBy(cb) = "checking_updates" THEN FALSE
              ELSE checking_updates)
        /\ installing' =
             (IF ClearedBy(cb) = "installing" THEN FALSE ELSE installing)
        /\ IF cb = "on_update_check_complete"
           THEN /\ rows' = rows + gui_updates
                /\ \E n \in 0..gui_updates : selected' = selected + n
           ELSE UNCHANGED <<rows, selected>>
        /\ IF cb = "on_installation_complete"
           THEN /\ updates_stale' = (gui_updates > 0)
                /\ check_stale' = (check_workers > 0)
           ELSE UNCHANGED <<updates_stale, check_stale>>
        /\ scan_btn' = (IF ClearedBy(cb) = "scanning" THEN TRUE ELSE scan_btn)
        /\ check_updates_btn' =
             (IF cb = "on_scan_complete" \/ ClearedBy(cb) = "checking_updates"
              THEN TRUE ELSE check_updates_btn)
        /\ install_btn' =
             (IF \/ cb = "on_update_check_complete" /\ gui_updates > 0 /\ is_admin
                 \/ ClearedBy(cb) = "installing"
              THEN TRUE ELSE install_btn)
        /\ check_found' =
             (check_found \/ (cb = "on_update_check_complete" /\ gui_updates > 0))
  /\ UNCHANGED <<is_admin, by_buttons, scan_found>>
  /\ UNCHANGED <<scan_workers, check_workers, install_workers, gui_drivers,
                 gui_updates, last_start, install_threads>>
  /\ UNCHANGED otherThanGui

(***************************************************************************)
(* update_checker.py: _is_version_newer on every pair of three versions    *)
(***************************************************************************)
\* greatest component of the enumerated versions of numbers
MaxPart == 1
\* most components of the enumerated versions of numbers
MaxParts == 2

\* "1.2", "1.2.0", "2.0.0.0", "1.9.9.9", "1.0", "abc", "1.abc", "1.0.rc1"
ExampleVersions ==
  { <<1, 2>>, <<1, 2, 0>>, <<2, 0, 0, 0>>, <<1, 9, 9, 9>>, <<1, 0>>,
    <<UNKNOWN>>, <<1, UNKNOWN>>, <<1, 0, PRE>> }

NumericVersions == SeqsUpTo(0..MaxPart, MaxParts) \ {<<>>}

Versions == NumericVersions \cup ExampleVersions

\* self._is_version_newer(args[i], args[j]) for every i and j
IsVersionNewerCall ==
  /\ fcall.f = "_is_version_newer" /\ fret = Pending
  /\ fret' = Returned([p \in (1..3) \X (1..3) |->
                IsVersionNewer(fcall.args[p[1]], fcall.args[p[2]], fcall.legacy)])
  /\ UNCHANGED fcall
  /\ UNCHANGED otherThanCall

(***************************************************************************)
(* update_checker.py: single calls of _generate_mock_version               *)
(***************************************************************************)
\* most components of a current version
MaxMockParts == 5

\* current versions of numbers, "Unknown" and "rc1" parts
MockInputs == SeqsUpTo((0..MaxPart) \cup {UNKNOWN, PRE}, MaxMockParts) \ {<<>>}

\* self._generate_mock_version(current_version)
GenerateMockVersionCall ==
  /\ fcall.f = "_generate_mock_version" /\ fret = Pending
  /\ fret' = Returned(GenerateMockVersion(fcall.cur))
  /\ UNCHANGED fcall
  /\ UNCHANGED otherThanCall

(***************************************************************************)
(* update_checker.py: single calls of verify_download                      *)
(***************************************************************************)
\* verify_download(file_path, expected_size), the file being what it is
VerifyDownloadCall ==
  /\ fcall.f = "verify_download" /\ fret = Pending
  /\ fret' = Returned(Bool(VerifyDownload(fcall.size, fcall.expected, fcall.ext)))
  /\ UNCHANGED fcall
  /\ UNCHANGED otherThanCall

(***************************************************************************)
(* driver_scanner_fixed.py: _remove_duplicates                             *)
(***************************************************************************)
\* most records handed to _remove_duplicates
MaxScanned == 3

\* scanned records: the two fields the key is made of, and "name" for the
\* rest of the record, which tells apart records that share a key
ScannedRecords ==
  [device_id : {"PCI_1", "SYS_a"}, driver_path : {"", "a.sys"}, name : {"x", "y"}]

\* a key of the device id alone
DuplicateKey_m(driver) == <<driver.device_id>>

\* key = (driver.get("device_id", ""), driver.get("driver_path", ""))
DuplicateKey(driver) == <<driver.device_id, driver.driver_path>>

\* the loop of _remove_duplicates from position k on, with the keys seen and
\* the records kept so far
RECURSIVE RemoveDuplicatesFrom(_, _, _, _)
RemoveDuplicatesFrom(drivers, k, seen, unique_drivers) ==
  IF k > Len(drivers) THEN unique_drivers
  ELSE LET key == DuplicateKey(drivers[k])
       IN IF key \notin seen
          THEN RemoveDuplicatesFrom(drivers, k + 1, seen \cup {key},
                                    Append(unique_drivers, drivers[k]))
          ELSE RemoveDuplicatesFrom(drivers, k + 1, seen, unique_drivers)

RemoveDuplicates(drivers) == RemoveDuplicatesFrom(drivers, 1, {}, <<>>)

\* self._remove_duplicates(drivers), and once more on what it returned
RemoveDuplicatesCall ==
  /\ fcall.f = "_remove_duplicates" /\ fret = Pending
  /\ LET unique_drivers == RemoveDuplicates(fcall.drivers)
     IN fret' = Returned([out |-> unique_drivers,
                          again |-> RemoveDuplicates(unique_drivers)])
  /\ UNCHANGED fcall
  /\ UNCHANGED otherThanCall

(***************************************************************************)
(* driver_scanner_fixed.py: get_driver_categories.  Of a device name and   *)
(* of a hardware id the code only asks which keywords occur in them,       *)
(* lower-cased: each is modelled as the set of those keywords.  A hardware *)
(* id that is None or missing is read as "", the empty set.                *)
(***************************************************************************)
\* the keys of the dict `categories`, in the order of the if/elif chain
CategoryOrder == <<"Graphics", "Audio", "Network", "Storage", "Input", "System", "Other">>

\* the keyword list of each branch; the else branch has none
Keywords(category) ==
  CASE category = "Graphics" ->
         {"display", "graphics", "video", "nvidia", "amd", "intel hd", "radeon"}
    [] category = "Audio" ->
         {"audio", "sound", "speaker", "microphone", "realtek", "hdmi audio"}
    [] category = "Network" ->
         {"network", "ethernet", "wifi", "wireless", "bluetooth", "lan"}
    [] category = "Storage" ->
         {"storage", "disk", "ssd", "hdd", "sata", "nvme", "usb mass"}
    [] category = "Input" -> {"keyboard", "mouse", "hid", "input", "touchpad"}
    [] category = "System" ->
         {"system", "chipset", "acpi", "pci", "usb root", "processor"}
    [] OTHER -> {}

\* any(keyword in device_name or keyword in hardware_id for keyword in ...)
AnyKeyword(category, driver) ==
  \E keyword \in Keywords(category) :
    keyword \in driver.device_name \/ keyword \in driver.hardware_id

\* the chain with the device name alone
CategoryOf_m(driver) ==
  LET hit(c) == Keywords(c) \cap driver.device_name # {}
  IN IF hit("Graphics") THEN "Graphics"
     ELSE IF hit("Audio") THEN "Audio"
     ELSE IF hit("Network") THEN "Network"
     ELSE IF hit("Storage") THEN "Storage"
     ELSE IF hit("Input") THEN "Input"
     ELSE IF hit("System") THEN "System"
     ELSE "Other"

\* the if/elif/else chain: the list the driver is appended to
CategoryOf(driver) ==
  IF AnyKeyword("Graphics", driver) THEN "Graphics"
  ELSE IF AnyKeyword("Audio", driver) THEN "Audio"
  ELSE IF AnyKeyword("Network", driver) THEN "Network"
  ELSE IF AnyKeyword("Storage", driver) THEN "Storage"
  ELSE IF AnyKeyword("Input", driver) THEN "Input"
  ELSE IF AnyKeyword("System", driver) THEN "System"
  ELSE "Other"

\* the loop of get_driver_categories from position k on
RECURSIVE CategorizeFrom(_, _, _)
CategorizeFrom(drivers, k, categories) ==
  IF k > Len(drivers) THEN categories
  ELSE LET c == CategoryOf(drivers[k])
       IN CategorizeFrom(drivers, k + 1,
                         [categories EXCEPT ![c] = Append(@, drivers[k])])

GetDriverCategories(drivers) ==
  CategorizeFrom(drivers, 1,
                 [c \in {CategoryOrder[n] : n \in 1..Len(CategoryOrder)} |-> <<>>])

\* most records handed to get_driver_categories
MaxCategorized == 2

\* device names and hardware ids by the keywords in them
DeviceNames ==
  { {}, {"nvidia"}, {"realtek", "audio"}, {"nvidia", "audio"}, {"ethernet"},
    {"usb mass"}, {"mouse"}, {"chipset"}, {"lan", "system"} }

HardwareIds == { {}, {"pci"}, {"hid"}, {"hid", "audio"} }

CategorizedRecords == [device_name : DeviceNames, hardware_id : HardwareIds]

\* self.scanner.get_driver_categories(drivers)
GetDriverCategoriesCall ==
  /\ fcall.f = "get_driver_categories" /\ fret = Pending
  /\ fret' = Returned(GetDriverCategories(fcall.drivers))
  /\ UNCHANGED fcall
  /\ UNCHANGED otherThanCall

(***************************************************************************)
(* driver_scanner_fixed.py: scan_all_drivers.  A query on the WMI          *)
(* connection hands over some records and then ends or raises; what a      *)
(* sub-scan had appended before the error stays in its list.               *)
(***************************************************************************)
\* most records one query hands over
MaxFound == 2

\* the records a query can hand over: two that share a key and one of
\* another key
Found ==
  SeqsUpTo({r \in ScannedRecords :
              r.driver_path = "a.sys" /\ (r.device_id = "PCI_1" \/ r.name = "x")},
           MaxFound)

\* scan_all_drivers is entered
ScanAllDrivers ==
  /\ spc = "entry"
  /\ spc' = "pnp"
  /\ UNCHANGED <<wmi_connection, pnp_drivers, system_drivers, scan_errors, scan_result>>
  /\ UNCHANGED otherThanScan

\* _scan_pnp_drivers with an error of the query leaving the sub-scan
ScanPnpDrivers_m ==
  /\ spc = "pnp"
  /\ IF ~wmi_connection
     THEN /\ pnp_drivers' = <<>>
          /\ spc' = "system"
          /\ UNCHANGED scan_errors
     ELSE \E drivers \in Found, raised \in BOOLEAN :
            /\ pnp_drivers' = drivers
            /\ scan_errors' = IF raised THEN Append(scan_errors, "pnp") ELSE scan_errors
            /\ spc' = IF raised THEN "raised" ELSE "system"
  /\ UNCHANGED <<wmi_connection, system_drivers, scan_result>>
  /\ UNCHANGED otherThanScan

\* _scan_pnp_drivers: [] without a connection; else the records of the
\* Win32_PnPEntity query, an exception of which is logged
ScanPnpDrivers ==
  /\ spc = "pnp"
  /\ IF ~wmi_connection
     THEN /\ pnp_drivers' = <<>>
          /\ UNCHANGED scan_errors
     ELSE \E drivers \in Found, raised \in BOOLEAN :
            /\ pnp_drivers' = drivers
            /\ scan_errors' = IF raised THEN Append(scan_errors, "pnp") ELSE scan_errors
  /\ spc' = "system"
  /\ UNCHANGED <<wmi_connection, system_drivers, scan_result>>
  /\ UNCHANGED otherThanScan

\* _scan_system_drivers: [] without a connection; else the records of the
\* Win32_SystemDriver query, an exception of which is logged and followed by
\* the PowerShell scan
ScanSystemDrivers ==
  /\ spc = "system"
  /\ IF ~wmi_connection
     THEN /\ system_drivers' = <<>>
          /\ spc' = "dedup"
          /\ UNCHANGED scan_errors
     ELSE \E drivers \in Found, raised \in BOOLEAN :
            /\ system_drivers' = drivers
            /\ scan_errors' = IF raised THEN Append(scan_errors, "system") ELSE scan_errors
            /\ spc' = IF raised THEN "powershell" ELSE "dedup"
  /\ UNCHANGED <<wmi_connection, pnp_drivers, scan_result>>
  /\ UNCHANGED otherThanScan

\* _scan_drivers_with_powershell from the except of _scan_system_drivers:
\* its records are appended; a failing command, a timeout or unparsable
\* output is logged inside it
ScanDriversWithPowershell ==
  /\ spc = "powershell"
  /\ \E alt_drivers \in Found, raised \in BOOLEAN :
       /\ system_drivers' = system_drivers \o alt_drivers
       /\ scan_errors' = IF raised THEN Append(scan_errors, "powershell")
                                   ELSE scan_errors
  /\ spc' = "dedup"
  /\ UNCHANGED <<wmi_connection, pnp_drivers, scan_result>>
  /\ UNCHANGED otherThanScan

\* drivers.extend(pnp_drivers); drivers.extend(system_drivers);
\* return self._remove_duplicates(drivers)
ScanReturn ==
  /\ spc = "dedup"
  /\ scan_result' = Returned(RemoveDuplicates(pnp_drivers \o system_drivers))
  /\ spc' = "done"
  /\ UNCHANGED <<wmi_connection, pnp_drivers, system_drivers, scan_errors>>
  /\ UNCHANGED otherThanScan

(***************************************************************************)
(* Specifications.                                                         *)
(***************************************************************************)
ItemInit ==
  /\ idx = 0
  /\ success_count = 0
  /\ outcomes = <<>>
  /\ restore_calls = 0
  /\ restore_point_created = "unset"
  /\ calls = <<>>
  /\ lastOut = NoOut
  /\ backup_out = NoOut
  /\ param_i = 1
  /\ inner_left = 0
  /\ extracted = <<>>
  /\ installed = <<>>
  /\ fetched = "unset"
  /\ verified = "unset"
  /\ flag_timeouts = TRUE
  /\ result = "none"

\* the resolver is not running
ResolveIdle ==
  /\ drivers_data = <<>>
  /\ legacy_packaging = FALSE
  /\ has_callback = FALSE
  /\ rpc = "idle"
  /\ r_i = 0
  /\ updates_available = <<>>
  /\ progress_calls = <<>>
  /\ consulted = <<>>

\* the GUI as DriverUpdaterGUI.__init__ leaves it
GuiAsConstructed ==
  /\ scanning = FALSE
  /\ checking_updates = FALSE
  /\ installing = FALSE
  /\ scan_workers = 0
  /\ check_workers = 0
  /\ install_workers = 0
  /\ after_queue = <<>>
  /\ gui_drivers = 0
  /\ gui_updates = 0
  /\ rows = 0
  /\ selected = 0
  /\ install_threads = <<>>
  /\ check_stale = FALSE
  /\ updates_stale = FALSE
  /\ last_start = [op |-> "none", accepted |-> FALSE]
  /\ scan_btn = TRUE
  /\ check_updates_btn = FALSE
  /\ install_btn = FALSE
  /\ by_buttons = TRUE
  /\ scan_found = FALSE
  /\ check_found = FALSE

\* the GUI of a process with administrator privileges
GuiInit == GuiAsConstructed /\ is_admin = TRUE

\* no scan is running
ScanIdle ==
  /\ wmi_connection = FALSE
  /\ spc = "idle"
  /\ pnp_drivers = <<>>
  /\ system_drivers = <<>>
  /\ scan_errors = <<>>
  /\ scan_result = [st |-> "none"]

(***************************************************************************)
(* main.py: calculate_update_priority.  A device name is the set of the    *)
(* words that occur in it, in the case they are written in.                *)
(***************************************************************************)
\* most words of one device name
MaxWords == 2

PriorityWords ==
  {"Graphics", "display", "SECURITY", "chipset", "Audio", "network",
   "ethernet", "WiFi", "mouse"}

\* str.lower() of a word of PriorityWords
LowerWord(word) ==
  CASE word = "Graphics" -> "graphics"
    [] word = "SECURITY" -> "security"
    [] word = "Audio" -> "audio"
    [] word = "WiFi" -> "wifi"
    [] OTHER -> word

\* str.lower() of a device name
LowerName(device_name) == {LowerWord(word) : word \in device_name}

\* the candidates calculate_update_priority is called with; one without the
\* key "device_name" has the name update.get defaults to, the empty string
PriorityUpdates ==
  {u \in [has_device_name : BOOLEAN,
          device_name : {n \in SUBSET PriorityWords : Cardinality(n) <= MaxWords},
          manufacturer : {"NVIDIA", "Microsoft"}] :
     ~u.has_device_name => u.device_name = {}}

\* the chain without .lower()
CalculateUpdatePriority_m(update) ==
  LET device_name == update.device_name
  IN IF \E keyword \in {"graphics", "display", "security", "chipset"} :
          keyword \in device_name
     THEN "High"
     ELSE IF \E keyword \in {"audio", "network", "ethernet", "wifi"} :
               keyword \in device_name
          THEN "Medium"
          ELSE "Low"

\* calculate_update_priority(update)
CalculateUpdatePriority(update) ==
  LET device_name == LowerName(update.device_name)
  IN IF \E keyword \in {"graphics", "display", "security", "chipset"} :
          keyword \in device_name
     THEN "High"
     ELSE IF \E keyword \in {"audio", "network", "ethernet", "wifi"} :
               keyword \in device_name
          THEN "Medium"
          ELSE "Low"

\* priority = self.calculate_update_priority(update)
CalculateUpdatePriorityCall ==
  /\ fcall.f = "calculate_update_priority" /\ fret = Pending
  /\ fret' = Returned(CalculateUpdatePriority(fcall.update))
  /\ UNCHANGED fcall
  /\ UNCHANGED otherThanCall

(***************************************************************************)
(* main.py: the selection loop of start_installation over the rows that    *)
(* on_update_check_complete inserted, one per candidate and in the         *)
(* candidates' order.                                                      *)
(***************************************************************************)
\* most candidates of one update check
MaxRows == 3

\* candidates: two of them can have the same device name
ListedUpdates == [device_name : {"gpu", "lan"}, new_version : {"1.0", "2.0"}]

\* the row on_update_check_complete inserts for a candidate, ticked or not
RowOf(update, ticked) ==
  [Select |-> IF ticked THEN "ticked" ELSE "open", Device |-> update.device_name]

\* updates_tree.get_children() after on_update_check_complete and the
\* user's clicks
RowsOf(available, ticks) ==
  [k \in 1..Len(available) |-> RowOf(available[k], k \in ticks)]

\* the inner loop without its break: every candidate of that name
RECURSIVE MatchesFrom_m(_, _, _)
MatchesFrom_m(device_name, available, k) ==
  IF k > Len(available) THEN <<>>
  ELSE IF available[k].device_name = device_name
       THEN <<available[k]>> \o MatchesFrom_m(device_name, available, k + 1)
       ELSE MatchesFrom_m(device_name, available, k + 1)

\* for update in self.updates_available: if the names are equal, append
\* and break
RECURSIVE MatchesFrom(_, _, _)
MatchesFrom(device_name, available, k) ==
  IF k > Len(available) THEN <<>>
  ELSE IF available[k].device_name = device_name THEN <<available[k]>>
       ELSE MatchesFrom(device_name, available, k + 1)

\* the outer loop over the rows from position r on
RECURSIVE SelectedFrom(_, _, _)
SelectedFrom(tree_rows, available, r) ==
  IF r > Len(tree_rows) THEN <<>>
  ELSE (IF tree_rows[r].Select = "ticked"
        THEN MatchesFrom(tree_rows[r].Device, available, 1)
        ELSE <<>>) \o SelectedFrom(tree_rows, available, r + 1)

\* selected_updates as start_installation builds it
SelectedUpdates(tree_rows, available) == SelectedFrom(tree_rows, available, 1)

\* the selection loop of start_installation
SelectedUpdatesCall ==
  /\ fcall.f = "selected_updates" /\ fret = Pending
  /\ fret' = Returned(SelectedUpdates(RowsOf(fcall.available, fcall.ticks),
                                      fcall.available))
  /\ UNCHANGED fcall
  /\ UNCHANGED otherThanCall

(***************************************************************************)
(* driver_installer.py: the staging directory of a DriverInstaller.  A     *)
(* path is the sequence of its components, a component the sequence of     *)
(* the pieces its name is formatted from.                                  *)
(***************************************************************************)
\* most downloads and backups of one session
MaxStaged == 2

\* most explicit calls of cleanup() in one session
MaxCleanups == 2

\* tempfile.mkdtemp(prefix="driver_updater_")
TempDir == << <<"driver_updater_">> >>

\* os.path.join of a directory and a relative name
Join(dir, name) == Append(dir, name)

\* os.path.join(self.temp_dir, "driver_backups")
BackupDir == Join(TempDir, <<"driver_backups">>)

\* the path is the directory or lies below it
Under(path, dir) ==
  Len(path) >= Len(dir) /\ SubSeq(path, 1, Len(dir)) = dir

\* the path and every directory above it: what os.makedirs leaves on disk
WithParents(path) == {SubSeq(path, 1, n) : n \in 1..Len(path)}

\* what subprocess.run of the rollback command does
RollbackOutcomes ==
  {[t |-> "exit", code |-> 0], [t |-> "exit", code |-> 1],
   [t |-> "timeout"], [t |-> "raised"]}

\* DriverInstaller.__init__: mkdtemp, then makedirs of the backup directory
Construct ==
  /\ session = "none"
  /\ session' = "live"
  /\ mkdtemp_calls' = mkdtemp_calls + 1
  /\ disk' = disk \cup {TempDir} \cup WithParents(BackupDir)
  /\ UNCHANGED <<staged, cleanup_calls, rollback>>
  /\ UNCHANGED otherThanSession

\* _download_driver: download_driver writes the file to
\* os.path.join(self.temp_dir, filename) or fails; the file stays where it
\* was written whether or not verify_download accepts it
DownloadIntoStaging ==
  /\ session = "live"
  /\ Len(staged) < MaxStaged
  /\ \E update \in SessionUpdates, written \in BOOLEAN :
       LET download_path == Join(TempDir, GenerateDriverFilename(update))
       IN /\ written => TempDir \in disk
          /\ disk' = IF written THEN disk \cup {download_path} ELSE disk
          /\ staged' = Append(staged, [kind |-> "download",
                                       device_name |-> update.device_name,
                                       path |-> download_path,
                                       made |-> written])
  /\ UNCHANGED <<session, mkdtemp_calls, cleanup_calls, rollback>>
  /\ UNCHANGED otherThanSession

\* _backup_current_driver: makedirs of the device's directory below
\* self.backup_dir, then the export into it; an error is logged
BackupIntoStaging ==
  /\ session = "live"
  /\ Len(staged) < MaxStaged
  /\ \E device_name \in SessionDeviceNames, made \in BOOLEAN :
       LET device_backup_dir ==
             Join(BackupDir, <<SanitizeFilename(device_name)>>)
       IN /\ disk' = IF made THEN disk \cup WithParents(device_backup_dir)
                     ELSE disk
          /\ staged' = Append(staged, [kind |-> "backup",
                                       device_name |-> device_name,
                                       path |-> device_backup_dir,
                                       made |-> made])
  /\ UNCHANGED <<session, mkdtemp_calls, cleanup_calls, rollback>>
  /\ UNCHANGED otherThanSession

\* what is on disk after cleanup(): nothing changes when self.temp_dir does
\* not exist; shutil.rmtree removes the tree, or raises part-way with the
\* directory and some of its content left, and the error is logged
AfterCleanup(after) ==
  IF TempDir \notin disk THEN after = disk
  ELSE \/ after = {p \in disk : ~Under(p, TempDir)}
       \/ /\ after \in SUBSET disk
          /\ TempDir \in after
          /\ \A p \in after : WithParents(p) \subseteq after
          /\ \A p \in disk : ~Under(p, TempDir) => p \in after

\* cleanup(), called on the live installer
Cleanup ==
  /\ session = "live"
  /\ cleanup_calls < MaxCleanups
  /\ AfterCleanup(disk')
  /\ cleanup_calls' = cleanup_calls + 1
  /\ UNCHANGED <<session, mkdtemp_calls, staged, rollback>>
  /\ UNCHANGED otherThanSession

\* __del__: the installer is collected and cleanup() runs
Del ==
  /\ session = "live"
  /\ AfterCleanup(disk')
  /\ cleanup_calls' = cleanup_calls + 1
  /\ session' = "ended"
  /\ UNCHANGED <<mkdtemp_calls, staged, rollback>>
  /\ UNCHANGED otherThanSession

\* the process ends with the installer still referenced, by a daemon worker
\* thread or because the process is killed: __del__ does not run, and
\* nothing else calls cleanup()
ProcessExit ==
  /\ session = "live"
  /\ session' = "ended"
  /\ UNCHANGED <<mkdtemp_calls, disk, staged, cleanup_calls, rollback>>
  /\ UNCHANGED otherThanSession

\* cmd of rollback_driver, each argument written as a path of one component
RollbackCmd ==
  << << <<"pnputil">> >>, << <<"/delete-driver">> >>, << <<"/uninstall">> >> >>

\* rollback_driver(device_name): the command is the same list for every
\* device; every error is caught and logged
RollbackDriver ==
  /\ session = "live"
  /\ \E device_name \in SessionDeviceNames, out \in RollbackOutcomes :
       rollback' = [st |-> "returned",
                    device_name |-> device_name,
                    cmd |-> RollbackCmd,
                    out |-> out,
                    ret |-> (out.t = "exit" /\ out.code = 0)]
  /\ UNCHANGED <<session, mkdtemp_calls, disk, staged, cleanup_calls>>
  /\ UNCHANGED otherThanSession

\* no installer has been constructed
SessionIdle ==
  /\ session = "none"
  /\ mkdtemp_calls = 0
  /\ disk = {}
  /\ staged = <<>>
  /\ cleanup_calls = 0
  /\ rollback = [st |-> "none"]

\* no single function call is under way
NoCall ==
  /\ fcall = [f |-> "none"]
  /\ fret = [st |-> "none"]

\* a batch over any list of candidates, by either of the two batch loops;
\* install_updates takes any list, start_installation starts its worker only
\* with a selection that is not empty
Init ==
  /\ entry \in BatchEntries
  /\ updates \in SeqsUpTo(CandidateKinds, MaxUpdates)
  /\ entry = "install_updates_thread" =>
        /\ updates # <<>>
        /\ \A k \in 1..Len(updates) : updates[k].download_url # ""
  /\ pc = "entry"
  /\ driver_file = "none"
  /\ ext = ""
  /\ ItemInit
  /\ ResolveIdle
  /\ GuiInit
  /\ ScanIdle
  /\ SessionIdle
  /\ NoCall

Next ==
  \/ InstallUpdates
  \/ InstallUpdatesThread
  \/ InstallSingleUpdate
  \/ DownloadDriver
  \/ BackupCurrentDriver
  \/ InstallViaWindowsUpdate
  \/ InstallDriverFile
  \/ InstallExeDriver
  \/ InstallInteractive
  \/ InstallSingleUpdateInteractive
  \/ DownloadDriverInteractive
  \/ InstallViaWindowsUpdateInteractive

Spec == Init /\ [][Next]_vars

\* either dispatcher applied to a staged payload of any extension
DispatchInit ==
  /\ entry \in DispatchEntries
  /\ updates = <<>>
  /\ pc = "install"
  /\ driver_file = "staged"
  /\ ext \in Exts
  /\ ItemInit
  /\ ResolveIdle
  /\ GuiInit
  /\ ScanIdle
  /\ SessionIdle
  /\ NoCall

DispatchNext ==
  \/ InstallDriverFile
  \/ InstallExeDriver
  \/ InstallInteractive
  \/ InstallMsiDriver
  \/ InstallInfDriver
  \/ InstallDriverFileInteractive
  \/ InstallExeDriverInteractive
  \/ InstallMsiDriverInteractive
  \/ InstallInfDriverInteractive
  \/ ZipExtract
  \/ ZipInstallInner

DispatchSpec == DispatchInit /\ [][DispatchNext]_vars

\* no installation is running
InstallIdle ==
  /\ entry = "none"
  /\ updates = <<>>
  /\ pc = "idle"
  /\ driver_file = "none"
  /\ ext = ""
  /\ ItemInit

\* check_for_updates on any list of driver records, under either packaging,
\* with or without a progress callback
ResolveInit ==
  /\ drivers_data \in SeqsUpTo(DriverRecords, MaxDrivers)
  /\ legacy_packaging \in BOOLEAN
  /\ has_callback \in BOOLEAN
  /\ rpc = "entry"
  /\ r_i = 0
  /\ updates_available = <<>>
  /\ progress_calls = <<>>
  /\ consulted = <<>>
  /\ InstallIdle
  /\ GuiInit
  /\ ScanIdle
  /\ SessionIdle
  /\ NoCall

ResolveNext ==
  \/ CheckForUpdates
  \/ ProgressCallback
  \/ CheckDriverUpdate

ResolveSpec == ResolveInit /\ [][ResolveNext]_vars

\* the GUI under any sequence of start requests, selections, worker
\* completions and callbacks
GuiSpecInit ==
  /\ GuiAsConstructed
  /\ is_admin \in BOOLEAN
  /\ ScanIdle
  /\ SessionIdle
  /\ NoCall
  /\ InstallIdle
  /\ ResolveIdle

GuiNext ==
  \/ StartScan
  \/ ScanDriversThread
  \/ StartUpdateCheck
  \/ CheckUpdatesThread
  \/ SelectUpdates
  \/ StartInstallation
  \/ InstallerStarts
  \/ InstallerEnds
  \/ ItemWithoutInstaller
  \/ InstallWorker
  \/ RunAfter

GuiSpec == GuiSpecInit /\ [][GuiNext]_vars

\* the GUI when every worker thread runs on to its end, every installer
\* process started ends, and the Tk main loop runs what root.after scheduled
GuiFairSpec ==
  /\ GuiSpec
  /\ WF_vars(ScanDriversThread)
  /\ WF_vars(CheckUpdatesThread)
  /\ WF_vars(InstallerEnds)
  /\ SF_vars(InstallWorker)
  /\ WF_vars(RunAfter)

\* verify_download on any file (absent, or of any size and extension) with
\* or without an expected size
VerifyInit ==
  /\ fcall \in [f : {"verify_download"}, size : FileSizes,
                 expected : ExpectedSizes, ext : Exts]
  /\ fret = Pending
  /\ InstallIdle
  /\ ResolveIdle
  /\ GuiInit
  /\ ScanIdle
  /\ SessionIdle

VerifyNext == VerifyDownloadCall

VerifySpec == VerifyInit /\ [][VerifyNext]_vars

\* _is_version_newer on the pairs of any three versions, under either
\* packaging
VersionInit ==
  /\ fcall \in [f : {"_is_version_newer"}, args : Versions \X Versions \X Versions,
                 legacy : BOOLEAN]
  /\ fret = Pending
  /\ InstallIdle
  /\ ResolveIdle
  /\ GuiInit
  /\ ScanIdle
  /\ SessionIdle

VersionNext == IsVersionNewerCall

VersionSpec == VersionInit /\ [][VersionNext]_vars

\* _generate_mock_version on any current version, under either packaging
MockInit ==
  /\ fcall \in [f : {"_generate_mock_version"}, cur : MockInputs,
                 legacy : BOOLEAN]
  /\ fret = Pending
  /\ InstallIdle
  /\ ResolveIdle
  /\ GuiInit
  /\ ScanIdle
  /\ SessionIdle

MockNext == GenerateMockVersionCall

MockSpec == MockInit /\ [][MockNext]_vars

\* _remove_duplicates on any list of scanned records
DedupInit ==
  /\ fcall \in [f : {"_remove_duplicates"},
                 drivers : SeqsUpTo(ScannedRecords, MaxScanned)]
  /\ fret = Pending
  /\ InstallIdle
  /\ ResolveIdle
  /\ GuiInit
  /\ ScanIdle
  /\ SessionIdle

DedupNext == RemoveDuplicatesCall

DedupSpec == DedupInit /\ [][DedupNext]_vars

\* get_driver_categories on any list of records
CategoriesInit ==
  /\ fcall \in [f : {"get_driver_categories"},
                 drivers : SeqsUpTo(CategorizedRecords, MaxCategorized)]
  /\ fret = Pending
  /\ InstallIdle
  /\ ResolveIdle
  /\ GuiInit
  /\ ScanIdle
  /\ SessionIdle

CategoriesNext == GetDriverCategoriesCall

CategoriesSpec == CategoriesInit /\ [][CategoriesNext]_vars

\* scan_all_drivers of a scanner constructed with or without a WMI
\* connection, whatever its queries hand over
ScanInit ==
  /\ wmi_connection \in BOOLEAN
  /\ spc = "entry"
  /\ pnp_drivers = <<>>
  /\ system_drivers = <<>>
  /\ scan_errors = <<>>
  /\ scan_result = [st |-> "none"]
  /\ InstallIdle
  /\ ResolveIdle
  /\ GuiInit
  /\ SessionIdle
  /\ NoCall

ScanNext ==
  \/ ScanAllDrivers
  \/ ScanPnpDrivers
  \/ ScanSystemDrivers
  \/ ScanDriversWithPowershell
  \/ ScanReturn

ScanSpec == ScanInit /\ [][ScanNext]_vars

\* one DriverInstaller from before its construction to the end of its
\* session
SessionInit ==
  /\ SessionIdle
  /\ InstallIdle
  /\ ResolveIdle
  /\ GuiInit
  /\ ScanIdle
  /\ NoCall

SessionNext ==
  \/ Construct
  \/ DownloadIntoStaging
  \/ BackupIntoStaging
  \/ Cleanup
  \/ Del
  \/ ProcessExit
  \/ RollbackDriver

SessionSpec == SessionInit /\ [][SessionNext]_vars

\* one call of calculate_update_priority with any candidate
PriorityInit ==
  /\ fcall \in [f : {"calculate_update_priority"}, update : PriorityUpdates]
  /\ fret = Pending
  /\ InstallIdle
  /\ ResolveIdle
  /\ GuiInit
  /\ ScanIdle
  /\ SessionIdle

PriorityNext == CalculateUpdatePriorityCall

PrioritySpec == PriorityInit /\ [][PriorityNext]_vars

\* the selection loop on any list of candidates with any rows ticked
SelectionInit ==
  /\ fcall \in {c \in [f : {"selected_updates"},
                       available : SeqsUpTo(ListedUpdates, MaxRows),
                       ticks : SUBSET (1..MaxRows)] :
                  c.ticks \subseteq 1..Len(c.available)}
  /\ fret = Pending
  /\ InstallIdle
  /\ ResolveIdle
  /\ GuiInit
  /\ ScanIdle
  /\ SessionIdle

SelectionNext == SelectedUpdatesCall

SelectionSpec == SelectionInit /\ [][SelectionNext]_vars

(***************************************************************************)
(* Properties of the batch loops and of the per-item pipeline (Spec).      *)
(***************************************************************************)
InstallStages == {"install", "exe_loop", "exe_fallback", "msi", "inf"}

Succeeded(outs) == {k \in 1..Len(outs) : outs[k].ok}

\* C1: a batch finishes its candidates one by one in list order, each exactly
\* once, goes on after a candidate that failed or raised, ends only when
\* every candidate has an outcome, and counts exactly the successes.
C1_BatchDrivesEveryCandidateOnce ==
  /\ Len(outcomes) = idx
  /\ \A k \in 1..Len(outcomes) : outcomes[k].item = k
  /\ success_count = Cardinality(Succeeded(outcomes))
  /\ pc = "done" => Len(outcomes) = Len(updates)
  /\ pc # "done" => idx < Len(updates) \/ pc = "entry"

\* three candidates, only the second failed: 2 of 3
C1_Witness ==
  /\ pc = "done"
  /\ Len(updates) = 3
  /\ Succeeded(outcomes) = {1, 3}
  /\ success_count = 2

\* C5 as stated: download and verification, then backup, then installer
\* attempts, on the batch path and on the interactive path alike.
C5_DownloadBackupInstallOrder ==
  /\ HasCall("backup") => driver_file = "staged"
  /\ (pc \in InstallStages \/ CountInstaller(calls) > 0) => HasCall("backup")

\* C6: a failed fetch or a failed verification ends the item Failed with no
\* installer process started, and the dispatcher is only ever entered with a
\* payload that was fetched and passed verification.
C6_NoInstallWithoutVerifiedDownload ==
  /\ (fetched = "False" \/ verified = "False") =>
        /\ CountInstaller(calls) = 0
        /\ result = "False"
        /\ pc \in {"next", "done"}
  /\ (pc \in InstallStages \/ CountInstaller(calls) > 0) =>
        /\ fetched = "True"
        /\ verified = "True"
        /\ driver_file = "staged"

\* a fetched payload that failed verification: the item is over, Failed
C6_Witness ==
  /\ fetched = "True"
  /\ verified = "False"
  /\ result = "False"
  /\ Len(outcomes) = idx /\ idx > 0 /\ ~outcomes[idx].ok

\* C7 as stated: every batch, by either loop, has made exactly one checkpoint
\* attempt by the time its first candidate is attempted.
C7_OneCheckpointPerBatch ==
  pc # "entry" => restore_calls = 1

ItemOver == pc \in {"next", "done"}

CurItem == IF ItemOver THEN idx ELSE idx + 1

CallsOf(cmds) == {k \in 1..Len(calls) : calls[k].cmd \in cmds}

\* C12: a candidate with a sentinel URL is never downloaded, verified or
\* backed up; with generic_update, as with no URL, it ends Failed and nothing
\* external is invoked; with windows_update the one OS update invocation
\* decides.
C12_SentinelsBypassDownload ==
  (pc # "entry" /\ CurItem >= 1) =>
     LET url == updates[CurItem].download_url
     IN /\ url \in {"windows_update", "generic_update", ""} =>
              /\ CallsOf({"download", "verify", "backup"}) = {}
              /\ fetched = "unset" /\ verified = "unset"
              /\ driver_file = "none"
        /\ url \in {"generic_update", ""} =>
              /\ calls = <<>>
              /\ ItemOver /\ result = "False" /\ ~outcomes[idx].ok
        /\ url = "windows_update" =>
              /\ CallsOf({"powershell"}) = 1..Len(calls)
              /\ IF ItemOver
                 THEN /\ Len(calls) = 1
                      /\ result = Bool(ExitedWith(lastOut,
                                   IF entry = "install_updates"
                                   THEN {ORC_SUCCEEDED} ELSE {0}))
                 ELSE calls = <<>>

\* a batch that has finished a generic_update candidate and then a
\* windows_update candidate, the latter with success
C12_Witness ==
  /\ idx = 2 /\ ItemOver
  /\ updates[1].download_url = "generic_update"
  /\ updates[2].download_url = "windows_update"
  /\ outcomes = <<[item |-> 1, ok |-> FALSE], [item |-> 2, ok |-> TRUE]>>

(***************************************************************************)
(* Properties of the dispatchers (DispatchSpec).                           *)
(***************************************************************************)
\* the attempts of the silent-flag cascade: the eight flags, then no flag
Cascade == silent_params \o <<"">>

LastCall == calls[Len(calls)]

DefinitiveFailure(out) == out.t = "exit" /\ out.rc \notin {0, REBOOT_REQUIRED}

InCascade == entry = "_install_driver_file" /\ ext = ".exe"

AttemptMade == calls # <<>> /\ LastCall.cmd \in InstallerCmds

C3_AllTimeoutsTryNineThenFail ==
  (InCascade /\ flag_timeouts) =>
     /\ Len(calls) <= Len(Cascade)
     /\ \A k \in 1..Len(calls) : calls[k] = Call("exe", Cascade[k])
     /\ pc = "returned" =>
          /\ Len(calls) = 9
          /\ result = Bool(ExitedWith(lastOut, {0, REBOOT_REQUIRED}))
     /\ pc # "returned" =>
          \/ pc = "install" /\ calls = <<>>
          \/ pc = "exe_loop" /\ Len(calls) < Len(silent_params)
          \/ pc = "exe_fallback" /\ Len(calls) = Len(silent_params)

\* all eight flags and the no-flag run timed out: Failed after nine attempts
C3_Witness ==
  /\ InCascade /\ flag_timeouts
  /\ pc = "returned" /\ result = "False"
  /\ Len(calls) = 9
  /\ lastOut.t = "timeout"

\* C4: an attempt of the cascade that exits with 0 or 3010 ends it with
\* success, so nothing is attempted after it, and the no-flag run is the
\* ninth attempt, after the eight flags in order.
C4_FirstSuccessEndsCascade ==
  InCascade =>
     /\ (AttemptMade /\ ExitedWith(lastOut, {0, REBOOT_REQUIRED})) =>
           pc = "returned" /\ result = "True"
     /\ \A k \in 1..Len(calls) :
           /\ calls[k] = Call("exe", Cascade[k])
           /\ calls[k].arg = "" => k = Len(silent_params) + 1
     /\ result = "True" => ExitedWith(lastOut, {0, REBOOT_REQUIRED})

\* the third flag exited with 3010: success, and the cascade is over
C4_Witness ==
  /\ InCascade
  /\ Len(calls) = 3
  /\ lastOut = [t |-> "exit", rc |-> REBOOT_REQUIRED]
  /\ pc = "returned" /\ result = "True"

\* C9 as stated: for .exe and .msi payloads, on either dispatcher, the call
\* returns success exactly when the last attempt exited with 0 or 3010.
C9_RebootCodeIsSuccess ==
  (ext \in {".exe", ".msi"} /\ pc = "returned" /\ AttemptMade) =>
     (result = "True" <=> ExitedWith(lastOut, {0, REBOOT_REQUIRED}))

\* C14: a .msi payload gets exactly one msiexec invocation and a .inf payload
\* exactly one pnputil /add-driver invocation, on either dispatcher; nothing
\* follows it; for .inf only exit code 0 is success, and a timeout or a
\* raised error of the one attempt is Failed.
C14_MsiInfOneAttempt ==
  ext \in {".msi", ".inf"} =>
     /\ Len(calls) <= 1
     /\ \A k \in 1..Len(calls) :
          calls[k].cmd = (IF ext = ".msi" THEN "msiexec" ELSE "pnputil_add")
     /\ (pc = "returned") <=> (Len(calls) = 1)
     /\ pc = "returned" =>
          /\ ext = ".inf" => result = Bool(ExitedWith(lastOut, {0}))
          /\ lastOut.t # "exit" => result = "False"

\* the one driver-store attempt on a .inf exited with 3010: Failed
C14_Witness ==
  /\ ext = ".inf" /\ entry = "_install_driver_file"
  /\ pc = "returned" /\ result = "False"
  /\ calls = <<Call("pnputil_add", "/install")>>
  /\ lastOut = [t |-> "exit", rc |-> REBOOT_REQUIRED]

\* the files of the extracted tree that are .inf, .sys or .cat files
DriverFilesOf(files) ==
  {k \in 1..Len(files) : Lower(files[k]) \in {".inf", ".sys", ".cat"}}

\* C15 as stated: the archive strategy returns success exactly when the
\* extraction completed, and by then every .inf/.sys/.cat file of the
\* extracted tree was handed to the driver-store strategy exactly once.
C15_ArchiveInstallsEveryDriverFile ==
  (entry = "_install_driver_file_interactive" /\ ext = ".zip" /\ pc = "returned") =>
     LET done == calls[1] = Call("unpack_archive", "done")
     IN /\ result = Bool(done)
        /\ done =>
             /\ {installed[k] : k \in 1..Len(installed)} = DriverFilesOf(extracted)
             /\ \A j, k \in 1..Len(installed) : j < k => installed[j] < installed[k]
             /\ Len(calls) = 1 + Len(installed)

\* the strategy the claim gives an extension
StrategyFor(e) ==
  CASE e = ".exe" -> "exe"
    [] e = ".msi" -> "msi"
    [] e \in {".inf", ".cat", ".sys"} -> "inf"
    [] e = ".zip" -> "zip"
    [] OTHER -> "none"

\* the strategy the dispatcher entered: by its first external invocation,
\* or, before any, by where the call stands
Entered ==
  IF calls # <<>>
  THEN CASE calls[1].cmd = "exe" -> "exe"
         [] calls[1].cmd = "msiexec" -> "msi"
         [] calls[1].cmd = "pnputil_add" -> "inf"
         [] calls[1].cmd = "unpack_archive" -> "zip"
         [] OTHER -> "none"
  ELSE CASE pc \in {"exe_loop", "exe_interactive"} -> "exe"
         [] pc \in {"msi", "msi_interactive"} -> "msi"
         [] pc \in {"inf", "inf_interactive"} -> "inf"
         [] pc = "zip" -> "zip"
         [] OTHER -> "none"

\* C13 as stated: on either dispatcher the extension alone chooses the
\* strategy: .exe, .msi, .inf/.cat/.sys and .zip each their own, and any
\* other extension Failed with nothing invoked.
C13_DispatchersChooseAlike ==
  pc # "install" =>
     /\ Entered = StrategyFor(ext)
     /\ StrategyFor(ext) = "none" => calls = <<>> /\ pc = "returned" /\ result = "False"

(***************************************************************************)
(* Properties of verify_download (VerifySpec).                             *)
(***************************************************************************)
\* the extensions _install_driver_file_interactive has a strategy for
DispatcherExts == {".exe", ".msi", ".inf", ".cat", ".sys", ".zip"}

\* C16 as stated: verify_download returns True exactly when the file exists,
\* the dispatcher has a strategy for its extension and, an expected size
\* being given, the size is within 10% of it, the boundary included; it
\* returns False otherwise.
C16_VerifyAcceptsDispatchable ==
  (fcall.f = "verify_download" /\ fret.st = "returned") =>
     fret.v = Bool(/\ fcall.size # -1
                   /\ fcall.ext \in DispatcherExts
                   /\ fcall.expected # 0 =>
                        Abs(fcall.size - fcall.expected) * 100
                          <= fcall.expected * SIZE_TOLERANCE_PCT)

(***************************************************************************)
(* Properties of _is_version_newer (VersionSpec).                          *)
(***************************************************************************)
Compared == fcall.f = "_is_version_newer" /\ fret.st = "returned"

\* what _is_version_newer(args[i], args[j]) returned
Newer(i, j) == fret.v[<<i, j>>]

\* a dotted sequence of non-negative integers
Numeric(v) == \A k \in 1..Len(v) : v[k] \in Nat

\* the k-th component, a missing one counting as zero
Part(v, k) == IF k <= Len(v) THEN v[k] ELSE 0

\* C17 as stated: every call returns a boolean; of two versions that differ
\* only in trailing zero components neither is newer; and when either
\* version is not a dotted sequence of numbers neither is newer.
C17_TotalAndNonNumericNeverNewer ==
  Compared =>
     /\ \A i, j \in 1..3 : Newer(i, j) \in BOOLEAN
     /\ \A i, j \in 1..3 :
          LET a == fcall.args[i]
              b == fcall.args[j]
          IN /\ (Numeric(a) /\ Numeric(b)
                 /\ \A k \in 1..4 : Part(a, k) = Part(b, k)) => ~Newer(i, j)
             /\ (a = <<2, 0, 0, 0>> /\ b = <<1, 9, 9, 9>>) => Newer(i, j)
             /\ (~Numeric(a) \/ ~Numeric(b)) => ~Newer(i, j)

\* at the first component where the two differ, a missing component
\* counting as zero, a has the greater one
FirstDifferenceGreater(a, b) ==
  \E n \in 1..Max(Len(a), Len(b)) :
    /\ Part(a, n) > Part(b, n)
    /\ \A m \in 1..(n - 1) : Part(a, m) = Part(b, m)

\* C18: on dotted sequences of non-negative integers _is_version_newer is
\* the component-wise comparison after zero-padding, and a strict order:
\* irreflexive, never true in both directions, transitive.
C18_NumericStrictOrder ==
  Compared =>
     \A i, j, k \in 1..3 :
       (Numeric(fcall.args[i]) /\ Numeric(fcall.args[j]) /\ Numeric(fcall.args[k])) =>
          /\ Newer(i, j) <=> FirstDifferenceGreater(fcall.args[i], fcall.args[j])
          /\ ~Newer(i, i)
          /\ ~(Newer(i, j) /\ Newer(j, i))
          /\ (Newer(i, j) /\ Newer(j, k)) => Newer(i, k)

\* "1.1" is newer than "1", "1" than "0.1", and "1.1" than "0.1"; "1" and
\* "1.0" are not newer than each other
C18_Witness ==
  /\ Compared
  /\ fcall.args \in {<<<<1, 1>>, <<1>>, <<0, 1>>>>, <<<<1>>, <<1, 0>>, <<0, 1>>>>}
  /\ Newer(1, 3) /\ Newer(2, 3)
  /\ ~Newer(2, 1)
  /\ fcall.args[1] = <<1, 1>> => Newer(1, 2)
  /\ fcall.args[1] = <<1>> => ~Newer(1, 2)

\* where a dispatcher stands after an attempt that did not succeed, told
\* from the attempts made alone: within the silent-flag cascade the next
\* flag, or the no-flag run after the eighth; anywhere else the strategy has
\* returned False
AfterFailedAttempt ==
  IF InCascade /\ LastCall.arg # ""
  THEN /\ result = "none"
       /\ param_i = Len(calls) + 1
       /\ pc = (IF Len(calls) < Len(silent_params) THEN "exe_loop" ELSE "exe_fallback")
  ELSE /\ pc = "returned"
       /\ result = "False"

\* C25: after an installer attempt on a .exe, .msi or .inf payload that
\* timed out the dispatcher stands exactly where it stands after one that
\* ended with a failure exit code: the same next attempt is due, or the same
\* False was returned.
C25_TimeoutIsFailure ==
  (ext \in {".exe", ".msi", ".inf"} /\ AttemptMade) =>
     /\ lastOut.t = "timeout" => AfterFailedAttempt
     /\ ExitedWith(lastOut, {1}) => AfterFailedAttempt

\* a cascade of timeouts and failure exit codes mixed went through its nine
\* attempts and returned False on a timeout of the no-flag run
C25_Witness ==
  /\ InCascade
  /\ pc = "returned"
  /\ result = "False"
  /\ Len(calls) = Len(Cascade)
  /\ lastOut.t = "timeout"
  /\ ~flag_timeouts

(***************************************************************************)
(* Properties of _remove_duplicates (DedupSpec).                           *)
(***************************************************************************)
Deduplicated == fcall.f = "_remove_duplicates" /\ fret.st = "returned"

KeyOf(r) == <<r.device_id, r.driver_path>>

\* the positions of the input that hold the first record of their key
FirstOfKey(drivers) ==
  {k \in 1..Len(drivers) : \A j \in 1..(k - 1) : KeyOf(drivers[j]) # KeyOf(drivers[k])}

\* the n-th smallest member of a set of positions
NthOf(S, n) == CHOOSE k \in S : Cardinality({j \in S : j < k}) = n - 1

Categorized == fcall.f = "get_driver_categories" /\ fret.st = "returned"

SevenCategories == {"Graphics", "Audio", "Network", "Storage", "Input", "System", "Other"}

\* one of the category's keywords occurs in the device name or hardware id
Matches(n, r) == Keywords(CategoryOrder[n]) \cap (r.device_name \cup r.hardware_id) # {}

\* how often r occurs in seq
Occurrences(r, seq) == Cardinality({k \in 1..Len(seq) : seq[k] = r})

RECURSIVE SumOver(_, _)
SumOver(f, S) ==
  IF S = {} THEN 0
  ELSE LET c == CHOOSE x \in S : TRUE IN f[c] + SumOver(f, S \ {c})

\* C24: get_driver_categories returns seven lists; a record is in the list
\* of the first category, in the order Graphics, Audio, Network, Storage,
\* Input, System, with a keyword in its device name or hardware id, and
\* in Other when there is none; the lists together hold each input record as
\* often as the input does and nothing else.
C24_FirstMatchingCategory ==
  Categorized =>
    LET drivers == fcall.drivers
        categories == fret.v
    IN /\ DOMAIN categories = SevenCategories
       /\ \A n \in 1..7 : \A k \in 1..Len(categories[CategoryOrder[n]]) :
            LET r == categories[CategoryOrder[n]][k]
            IN /\ \A j \in 1..(n - 1) : j <= 6 => ~Matches(j, r)
               /\ n <= 6 => Matches(n, r)
       /\ \A r \in CategorizedRecords :
            SumOver([c \in SevenCategories |-> Occurrences(r, categories[c])],
                    SevenCategories) = Occurrences(r, drivers)
       /\ SumOver([c \in SevenCategories |-> Len(categories[c])], SevenCategories)
             = Len(drivers)

\* a record with a Graphics and an Audio keyword went to Graphics alone; one
\* known only by the "pci" of its hardware id went to System
C24_Witness ==
  /\ Categorized
  /\ fcall.drivers = <<[device_name |-> {"nvidia", "audio"}, hardware_id |-> {"hid"}],
                       [device_name |-> {}, hardware_id |-> {"pci"}]>>
  /\ fret.v["Graphics"] = <<fcall.drivers[1]>>
  /\ fret.v["System"] = <<fcall.drivers[2]>>
  /\ fret.v["Audio"] = <<>> /\ fret.v["Input"] = <<>>

(***************************************************************************)
(* Properties of scan_all_drivers (ScanSpec).                              *)
(***************************************************************************)
\* C23: without a WMI connection both sub-scans yield the empty list; with
\* one, a query that raises ends its sub-scan with a list; scan_all_drivers
\* always reaches its return, and what it returns is the plug-and-play
\* records followed by the system-driver records, first record of each
\* (device_id, driver_path) key only.
C23_ScanDegradesWithoutRaising ==
  /\ spc \in {"entry", "pnp", "system", "powershell", "dedup", "done"}
  /\ ~wmi_connection =>
       /\ pnp_drivers = <<>> /\ system_drivers = <<>> /\ scan_errors = <<>>
       /\ spc # "powershell"
       /\ spc = "done" => scan_result = Returned(<<>>)
  /\ spc = "done" <=> scan_result.st = "returned"
  /\ spc = "done" =>
       LET drivers == pnp_drivers \o system_drivers
           out == scan_result.v
       IN /\ Len(out) = Cardinality(FirstOfKey(drivers))
          /\ \A n \in 1..Len(out) : out[n] = drivers[NthOf(FirstOfKey(drivers), n)]

\* both WMI queries raised after handing over a record, the PowerShell scan
\* added one, and the scan returned the first record of each of two keys,
\* the plug-and-play record first
C23_Witness ==
  /\ spc = "done"
  /\ wmi_connection
  /\ scan_errors = <<"pnp", "system">>
  /\ Len(pnp_drivers) = 1
  /\ Len(system_drivers) = 2
  /\ Len(scan_result.v) = 2
  /\ scan_result.v[1] = pnp_drivers[1]

(***************************************************************************)
(* Properties of the resolver (ResolveSpec).                               *)
(***************************************************************************)
\* C8 as stated: every candidate in the list check_for_updates builds has a
\* new_version that _is_version_newer finds newer than its current_version.
C8_CandidatesAreNewer ==
  \A k \in 1..Len(updates_available) :
    IsVersionNewer(updates_available[k].new_version,
                   updates_available[k].current_version, legacy_packaging)

\* the words of the two fields _check_driver_update searches
Searched(driver) == driver.manufacturer \cup driver.device_name

KeyIndex(key) == CHOOSE k \in 1..Len(update_checkers) : update_checkers[k] = key

\* C19: each call of _check_driver_update runs exactly one strategy: that of
\* the first key, in the order nvidia, amd, intel, realtek, microsoft,
\* generic, that occurs in the manufacturer or in the device name, and the
\* generic strategy when no key occurs.
C19_ExactlyOneStrategyByFirstKey ==
  \A k \in 1..Len(consulted) :
    LET driver == drivers_data[consulted[k].record]
        ran == consulted[k].ran
    IN /\ Len(ran) = 1
       /\ \/ /\ ran[1] \in Searched(driver)
             /\ \A j \in 1..(KeyIndex(ran[1]) - 1) :
                  update_checkers[j] \notin Searched(driver)
          \/ /\ ran[1] = "generic"
             /\ \A j \in 1..Len(update_checkers) :
                  update_checkers[j] \notin Searched(driver)

CandidateOf(j) == \E u \in 1..Len(updates_available) : updates_available[u].record = j

\* the loop body was entered for record j: its progress callback was called
\* or, when none was passed, _check_driver_update was
Evaluated(j) ==
  IF has_callback
  THEN \E k \in 1..Len(progress_calls) : progress_calls[k].current = j
  ELSE \E k \in 1..Len(consulted) : consulted[k].record = j

\* C20: a record whose strategy raised has no candidate; a record whose
\* vendor strategy did not raise and found a newer version has its candidate
\* whatever happened to the records before it; when check_for_updates
\* returns, every record was evaluated; and the candidates carry strictly
\* increasing record positions: at most one per record, in the records' order.
C20_RaiseCostsOneRecord ==
  /\ \A k \in 1..Len(consulted) :
       LET j == consulted[k].record
           driver == drivers_data[j]
           new == GenerateMockVersion(driver.version)
       IN /\ consulted[k].raised => ~CandidateOf(j)
          /\ (/\ ~consulted[k].raised
              /\ consulted[k].ran # <<>>
              /\ consulted[k].ran[1] \in VendorCheckers
              /\ VendorGate(consulted[k].ran[1], driver)
              /\ IsVersionNewer(new, driver.version, legacy_packaging))
             => CandidateOf(j)
  /\ rpc = "done" => \A j \in 1..Len(drivers_data) : Evaluated(j)
  /\ \A a, b \in 1..Len(updates_available) :
       a < b => updates_available[a].record < updates_available[b].record

\* the strategy of the first record raised, and the second record was still
\* checked and its candidate returned
C20_Witness ==
  /\ rpc = "done"
  /\ Len(drivers_data) = 2
  /\ Len(consulted) = 2
  /\ consulted[1].raised
  /\ ~consulted[2].raised
  /\ Len(updates_available) = 1
  /\ updates_available[1].record = 2

\* C21: check_for_updates calls the progress callback once per record, in
\* input order, with the record's position, the number of records and the
\* record's device name; the call for a record comes before that record's
\* strategy runs and after the evaluation of every earlier record is over.
C21_OneProgressCallPerRecord ==
  has_callback =>
    /\ Len(progress_calls) = (IF rpc = "check" THEN r_i + 1 ELSE r_i)
    /\ rpc = "done" => Len(progress_calls) = Len(drivers_data)
    /\ \A k \in 1..Len(progress_calls) :
         /\ progress_calls[k].current = k
         /\ progress_calls[k].total = Len(drivers_data)
         /\ progress_calls[k].device_name = drivers_data[k].device_name
    /\ \A k \in 1..Len(consulted) :
         /\ consulted[k].record <= Len(progress_calls)
         /\ consulted[k].record <= r_i

\* both records of a list of two had their callback and then their strategy
C21_Witness ==
  /\ has_callback
  /\ rpc = "done"
  /\ Len(drivers_data) = 2
  /\ drivers_data[1].device_name # drivers_data[2].device_name
  /\ Len(progress_calls) = 2
  /\ Len(consulted) = 2

(***************************************************************************)
(* Properties of the GUI's busy flags (GuiSpec).                           *)
(***************************************************************************)
AtMostOneWorkerEach ==
  /\ scan_workers <= 1
  /\ check_workers <= 1
  /\ install_workers <= 1

\* C10: of each operation at most one worker is in flight at any time, and a
\* start request made while its own operation is active starts no worker and
\* schedules nothing.
C10_OneWorkerPerOperation ==
  /\ []AtMostOneWorkerEach
  /\ [][/\ scanning => scan_workers' <= scan_workers
        /\ checking_updates => check_workers' <= check_workers
        /\ installing => install_workers' <= install_workers
        /\ (last_start' # last_start /\ ~last_start'.accepted) =>
              UNCHANGED <<scanning, checking_updates, installing, scan_workers,
                          check_workers, install_workers, after_queue>>]_vars

\* C27: once start_scan has begun a new scan, or an installation batch has
\* completed, self.updates_available holds no candidate resolved before
\* that point.
C27_CandidatesDiscarded ==
  gui_updates > 0 => ~updates_stale

RECURSIVE InFlight(_)
\* installer processes in flight, over all installation threads
InFlight(threads) ==
  IF threads = <<>> THEN 0 ELSE Head(threads).running + InFlight(Tail(threads))

\* C26: at no time are two installer processes in flight: there is at most
\* one installation thread, only while self.installing is set, and it waits
\* for each installer process before it goes on.
C26_OneInstallerAtATime ==
  /\ InFlight(install_threads) <= 1
  /\ Len(install_threads) <= 1
  /\ install_workers = Len(install_threads)
  /\ install_threads # <<>> => installing

\* a second start request was refused while the thread of the first batch
\* waited for the installer of its second item
C26_Witness ==
  /\ Len(install_threads) = 1
  /\ install_threads[1] = [items |-> 1, running |-> 1]
  /\ selected = 2
  /\ last_start = Rejected("install")

\* start_installation was refused while the installation worker was in flight
C10_Witness ==
  /\ last_start = Rejected("install")
  /\ installing
  /\ install_workers = 1
  /\ scanning /\ scan_workers = 1

(***************************************************************************)
(* Properties of the staging directory and of rollback (SessionSpec).      *)
(***************************************************************************)
\* C28: a session creates its staging directory, with the backup directory
\* inside it, exactly once at construction; every download and backup made
\* lies under it; once the session has ended the directory is gone; and a
\* cleanup() after the removal changes nothing.
C28_StagingScopedToSession ==
  /\ session # "none" => mkdtemp_calls = 1
  /\ (session = "live" /\ cleanup_calls = 0) =>
        (TempDir \in disk /\ BackupDir \in disk)
  /\ \A k \in 1..Len(staged) :
        staged[k].made => Under(staged[k].path, TempDir)
  /\ session = "ended" => TempDir \notin disk

\* the backups made for the device, by position in `staged`
BackupsOf(device_name) ==
  {k \in 1..Len(staged) :
     /\ staged[k].kind = "backup"
     /\ staged[k].made
     /\ staged[k].device_name = device_name}

\* the command has the path as one of its arguments
Names(cmd, path) == \E n \in 1..Len(cmd) : cmd[n] = path

\* C29: rollback_driver issues the uninstall command for the most recent
\* backup of the device it is given, and returns true exactly when the
\* command exited with code 0.
C29_RollbackOfLatestBackup ==
  rollback.st = "returned" =>
     /\ rollback.ret = (rollback.out = [t |-> "exit", code |-> 0])
     /\ \A k \in BackupsOf(rollback.device_name) :
          (\A j \in BackupsOf(rollback.device_name) : j <= k) =>
             Names(rollback.cmd, staged[k].path)

(***************************************************************************)
(* Properties of calculate_update_priority (PrioritySpec).                 *)
(***************************************************************************)
Prioritised == fcall.f = "calculate_update_priority" /\ fret.st = "returned"

HighWords == {"graphics", "display", "security", "chipset"}

MediumWords == {"audio", "network", "ethernet", "wifi"}

PendingFor(flag) ==
  \E k \in 1..Len(after_queue) : ClearedBy(after_queue[k]) = flag

\* a flag that is set has its worker in flight or its handler scheduled
NoOrphanFlag ==
  /\ scanning => (scan_workers > 0 \/ PendingFor("scanning"))
  /\ checking_updates => (check_workers > 0 \/ PendingFor("checking_updates"))
  /\ installing => (install_workers > 0 \/ PendingFor("installing"))

\* C31: a busy flag that is set always has its worker in flight or its
\* completion or error handler scheduled, and, when the workers run on and
\* the main loop runs the scheduled handlers, is cleared again.
C31_BusyFlagsAreCleared ==
  /\ []NoOrphanFlag
  /\ scanning ~> ~scanning
  /\ checking_updates ~> ~checking_updates
  /\ installing ~> ~installing

\* all three workers have ended on their error paths and the three error
\* handlers are scheduled, the flags still set
C31_Witness ==
  /\ scanning /\ checking_updates /\ installing
  /\ scan_workers = 0 /\ check_workers = 0 /\ install_workers = 0
  /\ PendingFor("scanning") /\ PendingFor("checking_updates")
  /\ PendingFor("installing")
  /\ \A k \in 1..Len(after_queue) :
        after_queue[k] \in {"on_scan_error", "on_update_check_error",
                            "on_installation_error"}

\* C32: a start request is turned away only on its own operation's flag
\* (or, for a check or a batch, because there is nothing to work on),
\* whatever the other two flags are: a scan request with self.scanning clear
\* starts a scan worker, a check request with self.checking_updates clear
\* and records present starts a check worker, an installation request with
\* self.installing clear and candidates present is not rejected.
C32_FlagsAreIndependent ==
  [][/\ (StartScan /\ ~scanning) =>
          (last_start' = Started("scan") /\ scan_workers' = scan_workers + 1)
     /\ (StartUpdateCheck /\ ~checking_updates /\ gui_drivers > 0) =>
          (last_start' = Started("check") /\ check_workers' = check_workers + 1)
     /\ (StartInstallation /\ ~installing /\ gui_updates > 0) =>
          last_start' # Rejected("install")
     /\ (StartInstallation /\ ~installing /\ gui_updates > 0
            /\ last_start' = Started("install")) =>
          install_workers' = install_workers + 1]_vars

\* a scan worker, an update-check worker and an installation worker are in
\* flight together, each started by a click on its enabled button
C32_Witness ==
  /\ scan_workers = 1 /\ check_workers = 1 /\ install_workers = 1
  /\ scanning /\ checking_updates /\ installing
  /\ last_start = Started("scan")
  /\ by_buttons

\* C33: an update check starts only with records in self.drivers_data, an
\* installation batch only with candidates in self.updates_available and a
\* ticked row; while a check is under way a scan has stored at least one
\* record before, and while a batch is under way a check has completed
\* with at least one candidate before, itself after such a scan.
C33_ScanThenCheckThenInstall ==
  /\ [](/\ (checking_updates \/ check_workers > 0) => scan_found
        /\ (installing \/ install_workers > 0) => (check_found /\ scan_found)
        /\ check_found => scan_found)
  /\ [][/\ (StartUpdateCheck /\ last_start' = Started("check")
             /\ check_workers' > check_workers) => gui_drivers > 0
        /\ (StartInstallation /\ install_workers' > install_workers) =>
             (gui_updates > 0 /\ selected > 0)]_vars

\* a batch is under way although the latest scan found nothing: the scan
\* and the check before it had found something
C33_Witness ==
  /\ installing /\ install_workers = 1
  /\ last_start = Started("install")
  /\ scan_found /\ check_found
  /\ gui_updates > 0 /\ selected > 0
  /\ gui_drivers = 0 /\ ~scanning

(***************************************************************************)
(* Properties of the GUI's item pipeline (Spec, entered by                 *)
(* install_updates_thread).                                                *)
(***************************************************************************)
\* C34: in a batch of install_updates_thread every candidate that succeeded
\* has the URL windows_update; a candidate with an ordinary URL ends Failed
\* with its backup export as the only external call made for it: no file
\* is staged and no installer runs.
C34_InteractiveDownloadNeverDelivers ==
  entry = "install_updates_thread" =>
    /\ \A k \in 1..Len(outcomes) :
         LET url == updates[outcomes[k].item].download_url
         IN /\ outcomes[k].ok => url = "windows_update"
            /\ url = "http" => ~outcomes[k].ok
    /\ (pc # "entry" /\ CurItem >= 1 /\ updates[CurItem].download_url = "http") =>
         /\ driver_file = "none"
         /\ CountInstaller(calls) = 0
         /\ CallsOf({"download", "verify"}) = {}
         /\ ItemOver => (calls = <<Call("backup", "")>> /\ result = "False")

\* a batch of the GUI in which an ordinary candidate failed and the
\* windows_update candidate after it succeeded
C34_Witness ==
  /\ entry = "install_updates_thread"
  /\ idx = 2 /\ ItemOver
  /\ updates[1].download_url = "http"
  /\ updates[2].download_url = "windows_update"
  /\ outcomes = <<[item |-> 1, ok |-> FALSE], [item |-> 2, ok |-> TRUE]>>

(***************************************************************************)
(* Properties of the batch path's staged file (Spec, entered by            *)
(* install_updates).                                                       *)
(***************************************************************************)
\* C35: in a batch of install_updates a staged file has the extension .exe
\* whatever the candidate's manufacturer, device name and version are, so
\* the dispatcher goes to the .exe strategy: no .msi or .inf installer is
\* ever run and no item ends on the unsupported-type branch.
C35_BatchStagesExeOnly ==
  entry = "install_updates" =>
    /\ driver_file = "staged" => ext = ".exe"
    /\ pc \notin {"msi", "inf"}
    /\ CallsOf({"msiexec", "pnputil_add"}) = {}
    /\ (ItemOver /\ idx >= 1 /\ driver_file = "staged" /\ HasCall("backup")) =>
         CountInstaller(calls) >= 1

\* a staged file went through the dispatcher to the .exe strategy, whose
\* first silent flag succeeded
C35_Witness ==
  /\ entry = "install_updates"
  /\ ItemOver /\ driver_file = "staged" /\ ext = ".exe"
  /\ calls[Len(calls)] = Call("exe", "/S")
  /\ result = "True"

(***************************************************************************)
(* Properties of start_installation's selection (SelectionSpec).           *)
(***************************************************************************)
BatchBuilt == fcall.f = "selected_updates" /\ fret.st = "returned"

\* the n-th smallest element of a set of numbers
RECURSIVE NthTick(_, _)
NthTick(S, n) ==
  LET least == CHOOSE x \in S : \A y \in S : x <= y
  IN IF n = 1 THEN least ELSE NthTick(S \ {least}, n - 1)

\* position of the first candidate with that device name
FirstNamed(device_name, available) ==
  CHOOSE k \in 1..Len(available) :
    /\ available[k].device_name = device_name
    /\ \A j \in 1..(k - 1) : available[j].device_name # device_name

\* C36: the batch has one element per ticked row, in row order; the element
\* for a row is the first candidate of updates_available with the row's
\* device name, so a candidate that differs from the first one of its name
\* is never in the batch.
C36_BatchIsFirstMatchPerRow ==
  BatchBuilt =>
    LET available == fcall.available
        ticks == fcall.ticks
        batch == fret.v
    IN /\ Len(batch) = Cardinality(ticks)
       /\ \A n \in 1..Len(batch) :
            batch[n] = available[FirstNamed(available[NthTick(ticks, n)].device_name,
                                          available)]
       /\ \A k \in 1..Len(available) :
            available[k] # available[FirstNamed(available[k].device_name,
                                                available)] =>
              \A n \in 1..Len(batch) : batch[n] # available[k]

\* two ticked rows with the same device name: the first candidate is in the
\* batch twice, the second not at all
C36_Witness ==
  /\ BatchBuilt
  /\ fcall.available = <<[device_name |-> "gpu", new_version |-> "1.0"],
                       [device_name |-> "gpu", new_version |-> "2.0"]>>
  /\ fcall.ticks = {1, 2}
  /\ fret.v = <<fcall.available[1], fcall.available[1]>>

(***************************************************************************)
(* Properties of _generate_mock_version (MockSpec).                        *)
(***************************************************************************)
Mocked == fcall.f = "_generate_mock_version" /\ fret.st = "returned"

\* major.minor.(build+1).revision, a missing build or revision read as 0
Bumped(cur) ==
  <<cur[1], cur[2], Pad(cur, 4)[3] + 1, Pad(cur, 4)[4]>>

\* the parts _generate_mock_version reads are numbers
FirstFourNumeric(cur) == \A k \in 1..Len(cur) : k <= 4 => cur[k] >= 0

\* C37: a current version of two or more parts whose first four are
\* integers yields major.minor.(build+1).revision, which _is_version_newer
\* finds newer when every part is an integer; every other current version
\* yields "1.0.0.1".
C37_MockVersionBumpsBuild ==
  Mocked =>
    LET cur == fcall.cur
    IN IF Len(cur) >= 2 /\ FirstFourNumeric(cur)
       THEN /\ fret.v = Bumped(cur)
            /\ IsNumeric(cur) => IsVersionNewer(fret.v, cur, fcall.legacy)
       ELSE fret.v = <<1, 0, 0, 1>>

\* C37 as stated: a current version of two or more integer parts yields the
\* bumped version, which is newer; every other current version yields
\* "1.0.0.1".
C37_AsStated ==
  Mocked =>
    LET cur == fcall.cur
    IN IF Len(cur) >= 2 /\ IsNumeric(cur)
       THEN /\ fret.v = Bumped(cur)
            /\ IsVersionNewer(fret.v, cur, fcall.legacy)
       ELSE fret.v = <<1, 0, 0, 1>>

\* "1.0.1.1.Unknown" yields "1.0.2.1", which packaging >= 22 does not find
\* newer
C37_Witness ==
  /\ Mocked
  /\ fcall.cur = <<1, 0, 1, 1, UNKNOWN>>
  /\ ~fcall.legacy
  /\ fret.v = <<1, 0, 2, 1>>
  /\ ~IsVersionNewer(fret.v, fcall.cur, fcall.legacy)

(***************************************************************************)
(* Properties of a raising progress callback (ResolveSpec).                *)
(***************************************************************************)
\* the loop body of record j is over and _check_driver_update was not
\* called in it: its progress callback raised
CallbackRaisedFor(j) ==
  /\ has_callback
  /\ j <= r_i
  /\ \A k \in 1..Len(consulted) : consulted[k].record # j

\* the step of the loop body in which the progress callback raises
CallbackRaises == rpc = "callback" /\ rpc' # "check"

\* C38: when the progress callback raises for a record, no strategy is
\* selected or run for that record and it has no candidate, the candidates
\* found before stay, and the loop goes to the next record; the pass ends
\* only after the last record.
C38_RaisingCallbackSkipsOneRecord ==
  /\ [](/\ \A j \in 1..Len(drivers_data) :
             CallbackRaisedFor(j) =>
               /\ ~CandidateOf(j)
               /\ progress_calls[j].current = j
               /\ (j < Len(drivers_data) /\ rpc = "done") =>
                    \/ CallbackRaisedFor(j + 1)
                    \/ \E k \in 1..Len(consulted) : consulted[k].record = j + 1
        /\ rpc = "done" => r_i = Len(drivers_data))
  /\ [][CallbackRaises =>
          /\ has_callback
          /\ consulted' = consulted
          /\ updates_available' = updates_available
          /\ r_i' = r_i + 1
          /\ rpc' = (IF r_i' < Len(drivers_data) THEN "callback" ELSE "done")]_vars

\* the callback raised for the first record of two; the second record was
\* checked and its candidate returned
C38_Witness ==
  /\ rpc = "done"
  /\ Len(drivers_data) = 2
  /\ CallbackRaisedFor(1)
  /\ Len(progress_calls) = 2
  /\ Len(consulted) = 1
  /\ consulted[1].record = 2
  /\ Len(updates_available) = 1
  /\ updates_available[1].record = 2

====
